---------------------------- MODULE Spec2Model ----------------------------
(***************************************************************************)
(* FactCheckr MCP server: the evidence-aggregation pipeline (verifyClaim,  *)
(* analyzeSourceConflicts, the source adapters) and the three cache-first  *)
(* tool handlers (verify_claim, analyze_webpage, generate_daily_digest)    *)
(* over the D1 store (fact_checks, webpage_analyses, daily_digests).       *)
(*                                                                         *)
(* Texts are TLA+ strings taken from a finite vocabulary.  A text that the *)
(* code builds by concatenation is a sequence of fragments; what           *)
(* String.prototype.includes answers on the lower-cased text is given by   *)
(* the table KeywordsOf.  Numbers that the code handles as IEEE doubles    *)
(* are exact rationals, scaled so that One stands for 1.0; NaN is a        *)
(* separate value that every arithmetic operator propagates.               *)
(***************************************************************************)
EXTENDS Integers, Sequences, FiniteSets, TLC

(***************************************************************************)
(* Numbers                                                                 *)
(***************************************************************************)
\* lcm(1..11): every mean over at most eleven evidence records is exact.
Lcm == 8 * 9 * 5 * 7 * 11
\* one hundredth
Pct == 10 * Lcm
One == 100 * Pct
H(h) == h * Pct
NaN == 0 - (50 * One)

isNaN(x) == x = NaN

\* Math.max / Math.min of two numbers
MathMax(a, b) == IF isNaN(a) \/ isNaN(b) THEN NaN ELSE IF a >= b THEN a ELSE b
MathMin(a, b) == IF isNaN(a) \/ isNaN(b) THEN NaN ELSE IF a <= b THEN a ELSE b
\* x * (num/10) for the two decimal factors the code uses (0.8, 0.7)
Times(x, tenths) == IF isNaN(x) THEN NaN ELSE (x * tenths) \div 10

\* the JavaScript value undefined, for an optional string
Undefined == "<undefined>"

RECURSIVE SumConfidence(_)
SumConfidence(rs) ==
  IF rs = <<>> THEN 0 ELSE Head(rs).confidence + SumConfidence(Tail(rs))

RECURSIVE SeqToSet(_)
SeqToSet(s) == IF s = <<>> THEN {} ELSE {Head(s)} \cup SeqToSet(Tail(s))

Contains(s, x) == \E i \in DOMAIN s : s[i] = x

NoDuplicates(s) == \A i, j \in DOMAIN s : i /= j => s[i] /= s[j]


(***************************************************************************)
(* Texts                                                                   *)
(***************************************************************************)
\* The keywords that the fragment includes.  Lower-case entries answer
\* text.toLowerCase().includes(k); entries with capitals answer the
\* case-sensitive source.includes(k) of verifyClaim.  The table lists every
\* keyword the code tests for (classifier, game detection, verdict
\* extraction, antonym check, specialised-source test) and the query words
\* of the claims below.
KeywordsOf(f) ==
  CASE f = "The Sun rises in the east" -> {"rises", "east"}
    [] f = "Vitamin C cures covid" -> {"vitamin", "cures", "covid"}
    [] f = "OG won the dota world cup tournament" ->
         {"won", "dota", "world", "world cup", "tournament"}
    [] f = "A study says Tesla stock doubled" ->
         {"study", "says", "tesla", "stock", "doubled"}
    \* Wikipedia extracts
    [] f = "OG won the final." -> {"won"}
    [] f = "No summary available" -> {"no"}
    \* DuckDuckGo
    [] f = "Yes" -> {"yes"}
    [] f = "OG lost the final." -> {"lost"}
    [] f = "WHO" -> {"WHO"}
    \* feed items
    [] f = "Tournament roundup" -> {"tournament"}
    [] f = "A mixture of results." -> {"mixture"}
    [] f = "Does vitamin C cure covid?" -> {"vitamin", "covid"}
    [] f = "This claim is false." -> {"false"}
    [] f = "Sun rises in the east" -> {"rises", "east"}
    [] f = "True: the sun rises in the east." -> {"true", "rises", "east"}
    [] f = "OG takes the dota world title" -> {"dota", "world"}
    [] f = "OG lifted the trophy." -> {}
    [] f = "OG wins dota world cup" -> {"dota", "world", "world cup"}
    [] f = "OG lost no games in the tournament." -> {"lost", "no", "tournament"}
    [] f = "Vitamin C and covid" -> {"vitamin", "covid"}
    [] f = "No evidence that vitamin C cures covid." ->
         {"no", "vitamin", "cures", "covid"}
    \* verdict labels
    [] f = "False" -> {"false"}
    [] f = "True" -> {"true"}
    [] f = "Mixed" -> {"mixed"}
    [] f = "FALSE" -> {"false"}
    [] f = "Partly true, partly false" -> {"true", "false"}
    \* source names
    [] f = "Liquipedia (" -> {"Liquipedia"}
    [] f = "ESPN Sports News" -> {"ESPN"}
    [] f = "TheSportsDB" -> {"TheSportsDB"}
    [] f = "PubMed/NCBI" -> {"PubMed"}
    [] f = "World Health Organization (WHO)" -> {"WHO"}
    [] f = "SEC EDGAR Database" -> {"SEC EDGAR"}
    [] f = "arXiv Preprint Server" -> {"arXiv"}
    \* other summaries
    [] f = "The International 2021" -> {"2021", "international"}
    [] f = "Dota 2 tournament" -> {"dota", "tournament"}
    [] f = "OG" -> {}
    [] f = "Tesla 10-K" -> {"tesla"}
    [] f = "Annual report" -> {}
    [] f = "Vitamin C and COVID-19: a trial" -> {"vitamin", "covid"}
    [] f = "Stock returns: a study" -> {"stock", "study"}
    [] OTHER -> {}

\* String.prototype.includes on a text made of fragments
includes(text, k) == \E i \in DOMAIN text : k \in KeywordsOf(text[i])

\* a falsy string: "" or undefined
Falsy(s) == s = "" \/ s = Undefined
\* a || b for strings
OrElse(a, b) == IF Falsy(a) THEN b ELSE a

\* claim.toLowerCase().split(' ').filter(word => word.length > 3)
QueryWords(query) ==
  CASE query = "The Sun rises in the east" -> <<"rises", "east">>
    [] query = "Vitamin C cures covid" -> <<"vitamin", "cures", "covid">>
    [] query = "OG won the dota world cup tournament" ->
         <<"dota", "world", "tournament">>
    [] query = "A study says Tesla stock doubled" ->
         <<"study", "says", "tesla", "stock", "doubled">>
    [] query = "I cannot verify this claim." -> <<"cannot", "verify", "this", "claim.">>
    [] OTHER -> <<>>

Claims ==
  { "The Sun rises in the east", "Vitamin C cures covid",
    "OG won the dota world cup tournament", "A study says Tesla stock doubled" }

(***************************************************************************)
(* Claim classification (verifyClaim, first part)                          *)
(***************************************************************************)
AnyKeyword(claim, ks) == \E k \in ks : includes(<<claim>>, k)

isEsports(claim) ==
  AnyKeyword(claim, {"major", "tournament", "cs:go", "dota", "league",
                     "valorant", "esports", "gaming"})
isSports(claim) ==
  AnyKeyword(claim, {"championship", "world cup", "olympics", "nfl", "nba",
                     "football", "soccer", "baseball"})
isMedical(claim) ==
  AnyKeyword(claim, {"health", "medicine", "disease", "vaccine", "drug",
                     "treatment", "vitamin", "cancer", "covid", "medical"})
isFinancial(claim) ==
  AnyKeyword(claim, {"stock", "market", "sec", "earnings", "revenue",
                     "profit", "company", "financial"})
isScientific(claim) ==
  AnyKeyword(claim, {"research", "study", "science", "experiment", "theory",
                     "discovery", "climate", "physics"})

(***************************************************************************)
(* Source adapters.  Each takes the query and the reply of the external    *)
(* service and yields what the function body does with it; reply.net says  *)
(* how the HTTP exchange went: "neterror" (fetch rejects), "notok" (a      *)
(* non-2xx status), "badbody" (reading or destructuring the body throws),  *)
(* "ok".  An adapter result is [threw, value]: value is <<>> for null and  *)
(* <<record>> for a record.                                                *)
(***************************************************************************)
Throw == [threw |-> TRUE, value |-> <<>>]
Null == [threw |-> FALSE, value |-> <<>>]
Return(r) == [threw |-> FALSE, value |-> <<r>>]

NetKinds == {"neterror", "notok", "badbody", "ok"}

\* ExternalFactCheckResult
Rec(source, verdict, summary, url, confidence) ==
  [source |-> source, verdict |-> verdict, summary |-> summary, url |-> url,
   confidence |-> confidence]

\* a catch block that lets the exception go on to the caller
CatchRethrow(r) == r

\* the catch block of every adapter: console.error(...); return null
CatchReturnNull(r) == IF r.threw THEN Null ELSE r

WikipediaConfidence == 80
DuckDuckGoAnswerConfidence == 70
DuckDuckGoAbstractConfidence == 60
SnopesConfidence == 90
WikidataConfidence == 80
LiquipediaConfidence == 85
ESPNConfidence == 75
SportsDBConfidence == 80
PubMedConfidence == 90
WHOConfidence == 95
SECConfidence == 90
ArXivConfidence == 80
\* items.slice(0, 10)
FeedItemsChecked == 10

\* `https://en.wikipedia.org/wiki/${encodedQuery}`
WikipediaUrl(query) == <<"https://en.wikipedia.org/wiki/", query>>

searchWikipediaBody(query, reply) ==
  IF reply.net \in {"neterror", "badbody"} THEN Throw
  ELSE IF reply.net = "notok" THEN Null
  ELSE Return(Rec(<<"Wikipedia">>, Undefined,
                  <<OrElse(reply.extract, "No summary available")>>,
                  IF Falsy(reply.page) THEN WikipediaUrl(query) ELSE <<reply.page>>,
                  H(WikipediaConfidence)))
searchWikipedia(query, reply) == CatchReturnNull(searchWikipediaBody(query, reply))

searchDuckDuckGoBody(query, reply) ==
  IF reply.net \in {"neterror", "badbody"} THEN Throw
  ELSE IF reply.net = "notok" THEN Null
  ELSE IF ~Falsy(reply.Answer) THEN
    Return(Rec(<<"DuckDuckGo Instant Answer">>, Undefined, <<reply.Answer>>,
               <<OrElse(reply.AbstractURL, "https://duckduckgo.com")>>,
               H(DuckDuckGoAnswerConfidence)))
  ELSE IF ~Falsy(reply.AbstractText) THEN
    Return(Rec(<<"DuckDuckGo (", OrElse(reply.AbstractSource, "Various Sources"), ")">>,
               Undefined, <<reply.AbstractText>>,
               <<OrElse(reply.AbstractURL, "https://duckduckgo.com")>>,
               H(DuckDuckGoAbstractConfidence)))
  ELSE Null
searchDuckDuckGo(query, reply) == CatchReturnNull(searchDuckDuckGoBody(query, reply))

\* queryWords.filter(word => content.includes(word)).length
matchCount(queryWords, content) ==
  Cardinality({i \in DOMAIN queryWords : includes(content, queryWords[i])})

Min(a, b) == IF a <= b THEN a ELSE b

\* the loop over items.slice(0, 10) shared by searchSnopes, searchESPN and
\* searchWHO: the index of the first item accepted, 0 when there is none
itemMatches(queryWords, item) ==
  matchCount(queryWords, <<item.title, item.description>>) >= Min(2, Len(queryWords))
FirstMatch(queryWords, items) ==
  LET n == Min(FeedItemsChecked, Len(items))
      hits == {i \in 1..n : itemMatches(queryWords, items[i])}
  IN IF hits = {} THEN 0 ELSE CHOOSE i \in hits : \A j \in hits : i <= j

\* a label that is the description itself
descriptionAsVerdict(description) == description

\* Snopes: the verdict read off the description
snopesVerdict(description) ==
  IF includes(<<description>>, "false") \/ includes(<<description>>, "fake") THEN "False"
  ELSE IF includes(<<description>>, "true") \/ includes(<<description>>, "correct") THEN "True"
  ELSE IF includes(<<description>>, "mixture") \/ includes(<<description>>, "mixed") THEN "Mixed"
  ELSE ""

searchSnopesBody(query, reply) ==
  IF reply.net \in {"neterror", "badbody"} THEN Throw
  ELSE IF reply.net = "notok" THEN Null
  ELSE LET i == FirstMatch(QueryWords(query), reply.items)
       IN IF i = 0 THEN Null
          ELSE Return(Rec(<<"Snopes">>,
                          OrElse(snopesVerdict(reply.items[i].description), Undefined),
                          <<reply.items[i].description, "...">>,
                          <<reply.items[i].link>>, H(SnopesConfidence)))
searchSnopes(query, reply) == CatchReturnNull(searchSnopesBody(query, reply))

queryWikidataBody(query, reply) ==
  IF reply.net \in {"neterror", "badbody"} THEN Throw
  ELSE IF reply.net = "notok" THEN Null
  ELSE IF Len(reply.bindings) > 0 THEN
    Return(Rec(<<"Wikidata">>, Undefined,
               <<reply.bindings[1].itemLabel, ": ", reply.bindings[1].description>>,
               <<reply.bindings[1].item>>, H(WikidataConfidence)))
  ELSE Null
queryWikidata(query, reply) == CatchReturnNull(queryWikidataBody(query, reply))

\* Liquipedia: the game read off the query, "" when none is detected
liquipediaGame(query) ==
  IF AnyKeyword(query, {"cs:go", "counter-strike", "stockholm major"}) THEN "counterstrike"
  ELSE IF AnyKeyword(query, {"dota", "international"}) THEN "dota2"
  ELSE IF AnyKeyword(query, {"league", "worlds", "lol"}) THEN "leagueoflegends"
  ELSE IF AnyKeyword(query, {"valorant"}) THEN "valorant"
  ELSE ""

isTournamentTitle(title) ==
  \E k \in {"major", "championship", "tournament", "2021"} : includes(<<title>>, k)

searchLiquipediaBody(query, reply) ==
  IF liquipediaGame(query) = "" THEN Null
  ELSE IF reply.net \in {"neterror", "badbody"} THEN Throw
  ELSE IF reply.net = "notok" THEN Null
  ELSE LET hits == {i \in DOMAIN reply.titles : isTournamentTitle(reply.titles[i])}
           i == CHOOSE k \in hits : \A j \in hits : k <= j
       IN IF hits = {} THEN Null
          ELSE Return(Rec(<<"Liquipedia (", liquipediaGame(query), ")">>, Undefined,
                          <<reply.titles[i], ": ", reply.descriptions[i]>>,
                          <<reply.urls[i]>>, H(LiquipediaConfidence)))
searchLiquipedia(query, reply) == CatchReturnNull(searchLiquipediaBody(query, reply))

searchESPNBody(query, reply) ==
  IF reply.net \in {"neterror", "badbody"} THEN Throw
  ELSE IF reply.net = "notok" THEN Null
  ELSE LET i == FirstMatch(QueryWords(query), reply.items)
       IN IF i = 0 THEN Null
          ELSE Return(Rec(<<"ESPN Sports News">>, Undefined,
                          <<reply.items[i].title, ": ", reply.items[i].description, "...">>,
                          <<reply.items[i].link>>, H(ESPNConfidence)))
searchESPN(query, reply) == CatchReturnNull(searchESPNBody(query, reply))

searchSportsDBBody(query, reply) ==
  IF reply.net \in {"neterror", "badbody"} THEN Throw
  ELSE IF reply.net = "notok" THEN Null
  ELSE IF Len(reply.event) > 0 THEN
    Return(Rec(<<"TheSportsDB">>, Undefined,
               <<reply.event[1].strEvent, ": ", reply.event[1].strHomeTeam, " vs ",
                 reply.event[1].strAwayTeam, " on ", reply.event[1].dateEvent>>,
               <<"https://www.thesportsdb.com/event/", reply.event[1].idEvent>>,
               H(SportsDBConfidence)))
  ELSE Null
searchSportsDB(query, reply) == CatchReturnNull(searchSportsDBBody(query, reply))

\* PubMed makes two requests: esearch, then esummary of the first id
searchPubMedBody(query, reply) ==
  IF reply.net \in {"neterror", "badbody"} THEN Throw
  ELSE IF reply.net = "notok" THEN Null
  ELSE IF Len(reply.idlist) = 0 THEN Null
  ELSE IF reply.detailNet \in {"neterror", "badbody"} THEN Throw
  ELSE IF reply.detailNet = "notok" THEN Null
  ELSE IF Len(reply.article) = 0 THEN Null
  ELSE Return(Rec(<<"PubMed/NCBI">>, Undefined,
                  <<reply.article[1].title, " - ", reply.article[1].author, " et al. (",
                    reply.article[1].pubdate, ") - ", reply.article[1].source>>,
                  <<"https://pubmed.ncbi.nlm.nih.gov/", reply.idlist[1], "/">>,
                  H(PubMedConfidence)))
searchPubMed(query, reply) == CatchReturnNull(searchPubMedBody(query, reply))

searchWHOBody(query, reply) ==
  IF reply.net \in {"neterror", "badbody"} THEN Throw
  ELSE IF reply.net = "notok" THEN Null
  ELSE LET i == FirstMatch(QueryWords(query), reply.items)
       IN IF i = 0 THEN Null
          ELSE Return(Rec(<<"World Health Organization (WHO)">>, Undefined,
                          <<reply.items[i].title, ": ", reply.items[i].description, "...">>,
                          <<reply.items[i].link>>, H(WHOConfidence)))
searchWHO(query, reply) == CatchReturnNull(searchWHOBody(query, reply))

searchSECBody(query, reply) ==
  IF reply.net \in {"neterror", "badbody"} THEN Throw
  ELSE IF reply.net = "notok" THEN Null
  ELSE IF Len(reply.entries) > 0 THEN
    Return(Rec(<<"SEC EDGAR Database">>, Undefined,
               <<reply.entries[1].title, ": ", reply.entries[1].summary, "...">>,
               IF reply.entries[1].absolute THEN <<reply.entries[1].link>>
               ELSE <<"https://www.sec.gov", reply.entries[1].link>>,
               H(SECConfidence)))
  ELSE Null
searchSEC(query, reply) == CatchReturnNull(searchSECBody(query, reply))

searchArXivBody(query, reply) ==
  IF reply.net \in {"neterror", "badbody"} THEN Throw
  ELSE IF reply.net = "notok" THEN Null
  ELSE IF Len(reply.entries) > 0 THEN
    Return(Rec(<<"arXiv Preprint Server">>, Undefined,
               <<reply.entries[1].title, " - ", reply.entries[1].authors, " - ",
                 reply.entries[1].summary, "...">>,
               <<"https://arxiv.org/abs/", reply.entries[1].arxivId>>,
               H(ArXivConfidence)))
  ELSE Null
searchArXiv(query, reply) == CatchReturnNull(searchArXivBody(query, reply))

(***************************************************************************)
(* What the external services may answer                                   *)
(***************************************************************************)
FailedReplies == {[net |-> k] : k \in {"neterror", "notok", "badbody"}}

WikipediaPage ==
  [net |-> "ok", extract |-> "OG won the final.",
   page |-> "https://en.wikipedia.org/wiki/OG_(esports)"]
WikipediaReplies ==
  FailedReplies \cup {WikipediaPage, [net |-> "ok", extract |-> "", page |-> Undefined]}

DuckDuckGoAbstract ==
  [net |-> "ok", Answer |-> "", AbstractText |-> "OG lost the final.",
   AbstractSource |-> "WHO", AbstractURL |-> "https://en.wikipedia.org/wiki/OG_(esports)"]
DuckDuckGoReplies ==
  FailedReplies \cup
  { [net |-> "ok", Answer |-> "", AbstractText |-> "", AbstractSource |-> "",
     AbstractURL |-> ""],
    [net |-> "ok", Answer |-> "Yes", AbstractText |-> "", AbstractSource |-> "",
     AbstractURL |-> ""],
    DuckDuckGoAbstract }

Item(title, description, link) ==
  [title |-> title, description |-> description, link |-> link]

SnopesFeed ==
  << Item("Tournament roundup", "A mixture of results.",
          "https://www.snopes.com/fact-check/roundup/"),
     Item("Does vitamin C cure covid?", "This claim is false.",
          "https://www.snopes.com/fact-check/vitamin-c-covid/"),
     Item("Sun rises in the east", "True: the sun rises in the east.",
          "https://www.snopes.com/fact-check/sunrise/"),
     Item("OG takes the dota world title", "OG lifted the trophy.",
          "https://www.snopes.com/fact-check/og-dota/") >>
SnopesReplies ==
  FailedReplies \cup {[net |-> "ok", items |-> <<>>], [net |-> "ok", items |-> SnopesFeed]}

WikidataEntity ==
  [net |-> "ok", bindings |->
     << [itemLabel |-> "OG", description |-> "Dota 2 tournament",
         item |-> "http://www.wikidata.org/entity/Q21606420"] >>]
WikidataReplies == FailedReplies \cup {[net |-> "ok", bindings |-> <<>>], WikidataEntity}

LiquipediaPages ==
  [net |-> "ok", titles |-> <<"OG", "The International 2021">>,
   descriptions |-> <<"", "OG lost the final.">>,
   urls |-> <<"https://liquipedia.net/dota2/OG",
              "https://liquipedia.net/dota2/The_International/2021">>]
LiquipediaReplies ==
  FailedReplies \cup
  {[net |-> "ok", titles |-> <<>>, descriptions |-> <<>>, urls |-> <<>>], LiquipediaPages}

ESPNFeed ==
  << Item("OG wins dota world cup", "OG lost no games in the tournament.",
          "https://www.espn.com/esports/story/og") >>
ESPNReplies ==
  FailedReplies \cup {[net |-> "ok", items |-> <<>>], [net |-> "ok", items |-> ESPNFeed]}

SportsDBEvent ==
  [net |-> "ok", event |->
     << [strEvent |-> "Dota 2 tournament", strHomeTeam |-> "OG", strAwayTeam |-> "OG",
         dateEvent |-> "2021", idEvent |-> "441613"] >>]
SportsDBReplies == FailedReplies \cup {[net |-> "ok", event |-> <<>>], SportsDBEvent}

PubMedArticle ==
  [net |-> "ok", idlist |-> <<"33472840">>, detailNet |-> "ok", article |->
     << [title |-> "Vitamin C and COVID-19: a trial", author |-> "Unknown author",
         pubdate |-> "2021", source |-> "Annual report"] >>]
PubMedReplies ==
  {[net |-> k, idlist |-> <<>>, detailNet |-> "ok", article |-> <<>>] :
     k \in {"neterror", "notok", "badbody"}} \cup
  {[net |-> "ok", idlist |-> <<"33472840">>, detailNet |-> k, article |-> <<>>] :
     k \in {"neterror", "notok", "badbody"}} \cup
  { [net |-> "ok", idlist |-> <<>>, detailNet |-> "ok", article |-> <<>>],
    [net |-> "ok", idlist |-> <<"33472840">>, detailNet |-> "ok", article |-> <<>>],
    PubMedArticle }

WHOFeed ==
  << Item("Vitamin C and covid", "No evidence that vitamin C cures covid.",
          "https://www.who.int/news/item/vitamin-c") >>
WHOReplies ==
  FailedReplies \cup {[net |-> "ok", items |-> <<>>], [net |-> "ok", items |-> WHOFeed]}

SECFiling ==
  [net |-> "ok", entries |->
     << [title |-> "Tesla 10-K", summary |-> "Annual report",
         link |-> "/Archives/edgar/data/1318605/", absolute |-> FALSE] >>]
SECReplies == FailedReplies \cup {[net |-> "ok", entries |-> <<>>], SECFiling}

ArXivPaper ==
  [net |-> "ok", entries |->
     << [title |-> "Stock returns: a study", authors |-> "OG",
         summary |-> "Annual report", arxivId |-> "2101.00001"] >>]
ArXivReplies == FailedReplies \cup {[net |-> "ok", entries |-> <<>>], ArXivPaper}

AdapterNames ==
  <<"Wikipedia", "DuckDuckGo", "Snopes", "Liquipedia", "ESPN", "TheSportsDB",
    "PubMed", "WHO", "SEC", "arXiv", "Wikidata">>

Replies(adapter) ==
  CASE adapter = "Wikipedia" -> WikipediaReplies
    [] adapter = "DuckDuckGo" -> DuckDuckGoReplies
    [] adapter = "Snopes" -> SnopesReplies
    [] adapter = "Liquipedia" -> LiquipediaReplies
    [] adapter = "ESPN" -> ESPNReplies
    [] adapter = "TheSportsDB" -> SportsDBReplies
    [] adapter = "PubMed" -> PubMedReplies
    [] adapter = "WHO" -> WHOReplies
    [] adapter = "SEC" -> SECReplies
    [] adapter = "arXiv" -> ArXivReplies
    [] adapter = "Wikidata" -> WikidataReplies

\* the adapter call made at each `await searchX(claim)` of verifyClaim
Search(adapter, query, reply) ==
  CASE adapter = "Wikipedia" -> searchWikipedia(query, reply)
    [] adapter = "DuckDuckGo" -> searchDuckDuckGo(query, reply)
    [] adapter = "Snopes" -> searchSnopes(query, reply)
    [] adapter = "Liquipedia" -> searchLiquipedia(query, reply)
    [] adapter = "ESPN" -> searchESPN(query, reply)
    [] adapter = "TheSportsDB" -> searchSportsDB(query, reply)
    [] adapter = "PubMed" -> searchPubMed(query, reply)
    [] adapter = "WHO" -> searchWHO(query, reply)
    [] adapter = "SEC" -> searchSEC(query, reply)
    [] adapter = "arXiv" -> searchArXiv(query, reply)
    [] adapter = "Wikidata" -> queryWikidata(query, reply)

\* whether an exchange the adapter made went wrong (a request it did not
\* make cannot fail)
requestFailed(adapter, query, reply) ==
  CASE adapter = "Liquipedia" -> liquipediaGame(query) /= "" /\ reply.net /= "ok"
    [] adapter = "PubMed" ->
         reply.net /= "ok" \/ (Len(reply.idlist) > 0 /\ reply.detailNet /= "ok")
    [] OTHER -> reply.net /= "ok"

(***************************************************************************)
(* verifyClaim: evidence collection                                        *)
(***************************************************************************)
\* a collection that awaits the general sources only
generalAdaptersOnly(claim) == <<"Wikipedia", "DuckDuckGo", "Snopes", "Wikidata">>

\* a collection that queries Wikidata with the general sources, before the
\* specialized ones
wikidataWithGeneral(claim) ==
  <<"Wikipedia", "DuckDuckGo", "Snopes", "Wikidata">>
  \o (IF isEsports(claim) THEN <<"Liquipedia">> ELSE <<>>)
  \o (IF isSports(claim) THEN <<"ESPN", "TheSportsDB">> ELSE <<>>)
  \o (IF isMedical(claim) THEN <<"PubMed", "WHO">> ELSE <<>>)
  \o (IF isFinancial(claim) THEN <<"SEC">> ELSE <<>>)
  \o (IF isScientific(claim) THEN <<"arXiv">> ELSE <<>>)

\* the adapters verifyClaim awaits, in program order
AdapterPlan(claim) ==
  <<"Wikipedia", "DuckDuckGo", "Snopes">>
  \o (IF isEsports(claim) THEN <<"Liquipedia">> ELSE <<>>)
  \o (IF isSports(claim) THEN <<"ESPN", "TheSportsDB">> ELSE <<>>)
  \o (IF isMedical(claim) THEN <<"PubMed", "WHO">> ELSE <<>>)
  \o (IF isFinancial(claim) THEN <<"SEC">> ELSE <<>>)
  \o (IF isScientific(claim) THEN <<"arXiv">> ELSE <<>>)
  \o <<"Wikidata">>

\* the state of the try block of lines 643-713: the records pushed so far,
\* the adapters awaited so far, those whose exchange failed, whether the catch
\* of line 711 was entered; from[i] names the adapter that returned externalResults[i]
NoEvidence ==
  [externalResults |-> <<>>, from |-> <<>>, invoked |-> <<>>, failed |-> {},
   caught |-> FALSE]

\* one `const r = await searchX(claim); if (r) externalResults.push(r)`
CollectStep(c, adapter, claim, reply) ==
  LET r == Search(adapter, claim, reply)
  IN [externalResults |-> IF r.threw THEN c.externalResults
                          ELSE c.externalResults \o r.value,
      from |-> IF r.threw \/ r.value = <<>> THEN c.from ELSE Append(c.from, adapter),
      invoked |-> Append(c.invoked, adapter),
      failed |-> IF requestFailed(adapter, claim, reply)
                 THEN c.failed \cup {adapter} ELSE c.failed,
      caught |-> r.threw]

(***************************************************************************)
(* analyzeSourceConflicts                                                  *)
(***************************************************************************)
truthy(verdict) == ~Falsy(verdict)

summariesConflict(summary1, summary2) ==
  \/ includes(summary1, "won") /\ includes(summary2, "lost")
  \/ includes(summary1, "true") /\ includes(summary2, "false")
  \/ includes(summary1, "yes") /\ includes(summary2, "no")

\* the pairs pushed by the nested loop, in loop order
RECURSIVE conflictPairs(_, _, _)
conflictPairs(results, i, j) ==
  IF i > Len(results) THEN <<>>
  ELSE IF j > Len(results) THEN conflictPairs(results, i + 1, i + 2)
  ELSE (IF summariesConflict(results[i].summary, results[j].summary)
        THEN << <<results[i].source, results[j].source>> >> ELSE <<>>)
       \o conflictPairs(results, i, j + 1)

\* an analyzer that reads the verdict labels of a list of any size
conflictsWithoutSizeCheck(results) ==
  [hasConflicts |->
     /\ \E i \in DOMAIN results :
          truthy(results[i].verdict) /\ includes(<<results[i].verdict>>, "true")
     /\ \E i \in DOMAIN results :
          truthy(results[i].verdict) /\ includes(<<results[i].verdict>>, "false"),
   conflictSummary |-> "", pairs |-> <<>>]

\* an analyzer that reads the summaries only
conflictsInSummariesOnly(results) ==
  [hasConflicts |-> Len(conflictPairs(results, 1, 2)) > 0,
   conflictSummary |->
     IF Len(conflictPairs(results, 1, 2)) > 0 THEN "Conflicting information between: " ELSE "",
   pairs |-> conflictPairs(results, 1, 2)]

analyzeSourceConflicts(results) ==
  IF Len(results) < 2 THEN
    [hasConflicts |-> FALSE, conflictSummary |-> "", pairs |-> <<>>]
  ELSE
    LET hasTrue == \E i \in DOMAIN results :
                     truthy(results[i].verdict) /\ includes(<<results[i].verdict>>, "true")
        hasFalse == \E i \in DOMAIN results :
                     truthy(results[i].verdict) /\ includes(<<results[i].verdict>>, "false")
        conflicts == conflictPairs(results, 1, 2)
    IN IF hasTrue /\ hasFalse THEN
         [hasConflicts |-> TRUE,
          conflictSummary |->
            "Sources provide conflicting verdicts (some say true, others say false)",
          pairs |-> <<>>]
       ELSE
         [hasConflicts |-> Len(conflicts) > 0,
          conflictSummary |->
            IF Len(conflicts) > 0 THEN "Conflicting information between: " ELSE "",
          pairs |-> conflicts]

(***************************************************************************)
(* The generative model                                                    *)
(***************************************************************************)
\* JSON values of the "confidence" member: v is what ToNumber gives
JUndefined == [t |-> "undefined", v |-> NaN]
JNumber(h) == [t |-> "number", v |-> H(h)]
JNumericString(h) == [t |-> "string", v |-> H(h)]
JOtherString == [t |-> "string", v |-> NaN]

\* value || 0, then ToNumber (Math.max and Math.min coerce their arguments)
confidenceOrZero(c) ==
  IF c.t = "undefined" \/ (c.t = "number" /\ c.v = 0) THEN 0 ELSE c.v

NotArray == [isArray |-> FALSE, items |-> <<>>]
Array(items) == [isArray |-> TRUE, items |-> items]

\* the text a generation carries: form "empty" is "", "prose" is text that
\* is no JSON, "null" is the JSON literal null, "scalar" a JSON number,
\* string or boolean, "object" a JSON object with the members given
Generation(form, status, confidence, sources, reasoning) ==
  [form |-> form, status |-> status, confidence |-> confidence,
   sources |-> sources, reasoning |-> reasoning]

NoMembers(form) == Generation(form, Undefined, JUndefined, NotArray, Undefined)

ModelUrl == <<"https://example.org/report">>
WikiUrl == <<"https://en.wikipedia.org/wiki/OG_(esports)">>

ObjectGenerations ==
  { Generation("object", st, cf, src, "Supported by the sources.") :
      st \in {"true", "maybe"},
      cf \in {JUndefined, JNumber(0 - 50), JNumber(50), JNumber(170), JOtherString},
      src \in {NotArray, Array(<<WikiUrl>>), Array(<<ModelUrl, ModelUrl>>)} }

Generations ==
  {NoMembers("empty"), NoMembers("prose"), NoMembers("null"), NoMembers("scalar"),
   NoMembers("object")} \cup ObjectGenerations

\* response as a string
RawText(g) ==
  CASE g.form = "empty" -> ""
    [] g.form = "prose" -> "I cannot verify this claim."
    [] g.form = "null" -> "null"
    [] g.form = "scalar" -> "42"
    [] OTHER -> "{...}"

CohereReplies ==
  {[net |-> k, text |-> NoMembers("empty")] : k \in {"neterror", "notok", "badbody"}}
  \cup {[net |-> "ok", text |-> g] : g \in Generations}

\* callCohere: throws on a failed exchange, else returns the generation text
callCohere(reply) ==
  CASE reply.net = "neterror" -> [threw |-> TRUE, message |-> "fetch failed", text |-> reply.text]
    [] reply.net = "notok" ->
         [threw |-> TRUE, message |-> "Cohere API error: ", text |-> reply.text]
    [] reply.net = "badbody" ->
         [threw |-> TRUE, message |-> "Unexpected end of JSON input", text |-> reply.text]
    [] OTHER -> [threw |-> FALSE, message |-> "", text |-> reply.text]

\* JSON.parse(response): throws on text that is no JSON
JSONparse(g) ==
  IF g.form \in {"empty", "prose"} THEN [threw |-> TRUE, isNull |-> FALSE, value |-> g]
  ELSE [threw |-> FALSE, isNull |-> g.form = "null", value |-> g]

(***************************************************************************)
(* verifyClaim: synthesis (lines 763-830)                                  *)
(***************************************************************************)
FactCheckResult(status, confidence, sources, reasoning) ==
  [status |-> status, confidence |-> confidence, sources |-> sources,
   reasoning |-> reasoning]

\* externalResults.map(r => r.url)
RECURSIVE urls(_)
urls(results) == IF results = <<>> THEN <<>> ELSE <<Head(results).url>> \o urls(Tail(results))

\* externalResults.forEach(r => { if (!allSources.includes(r.url)) allSources.push(r.url) })
RECURSIVE pushMissing(_, _)
pushMissing(allSources, results) ==
  IF results = <<>> THEN allSources
  ELSE pushMissing(IF Contains(allSources, Head(results).url) THEN allSources
                   ELSE Append(allSources, Head(results).url),
                   Tail(results))

SpecializedNames ==
  {"Liquipedia", "ESPN", "TheSportsDB", "PubMed", "WHO", "SEC EDGAR", "arXiv"}
hasSpecializedSource(results) ==
  \E i \in DOMAIN results : \E k \in SpecializedNames : includes(results[i].source, k)

\* externalResults.find(r => r.source === "Snopes" && r.verdict) is defined
hasSnopesVerdict(results) ==
  \E i \in DOMAIN results : results[i].source = <<"Snopes">> /\ truthy(results[i].verdict)

\* sum / externalResults.length
avgExternalConfidence(results) == SumConfidence(results) \div Len(results)

SpecializedFloor == 85
SnopesFloor == 90
ConflictFloor == 30
FallbackConfidenceWithEvidence == 60
FallbackConfidenceNoEvidence == 30
ErrorConfidenceWithEvidence == 40

\* Math.max(0, Math.min(1, x))
clamp(x) == MathMax(0, MathMin(One, x))

\* adjustments that dampen for a conflict before the raise to the evidence
dampenBeforeRaise(parsedConfidence, results, hasConflicts) ==
  LET c0 == confidenceOrZero(parsedConfidence)
      c1 == IF hasConflicts THEN MathMax(H(ConflictFloor), Times(c0, 7)) ELSE c0
      c2 == IF Len(results) > 0
            THEN MathMax(c1, Times(avgExternalConfidence(results), 8)) ELSE c1
      c3 == IF hasSpecializedSource(results) /\ ~hasConflicts
            THEN MathMax(c2, H(SpecializedFloor)) ELSE c2
      c4 == IF hasSnopesVerdict(results) /\ ~hasConflicts
            THEN MathMax(c3, H(SnopesFloor)) ELSE c3
  IN c4

\* the confidence adjustments of lines 778-804
adjustedConfidence(parsedConfidence, results, hasConflicts) ==
  LET c0 == confidenceOrZero(parsedConfidence)
      c1 == IF Len(results) > 0
            THEN MathMax(c0, Times(avgExternalConfidence(results), 8)) ELSE c0
      c2 == IF hasConflicts THEN MathMax(H(ConflictFloor), Times(c1, 7)) ELSE c1
      c3 == IF hasSpecializedSource(results) /\ ~hasConflicts
            THEN MathMax(c2, H(SpecializedFloor)) ELSE c2
      c4 == IF hasSnopesVerdict(results) /\ ~hasConflicts
            THEN MathMax(c3, H(SnopesFloor)) ELSE c3
  IN c4

\* the inner try block: the Verdict built from a parsed payload
parsedVerdict(parsed, results, conflictAnalysis) ==
  FactCheckResult(
    OrElse(parsed.status, "unverified"),
    clamp(adjustedConfidence(parsed.confidence, results, conflictAnalysis.hasConflicts)),
    pushMissing(IF parsed.sources.isArray THEN parsed.sources.items ELSE <<>>, results),
    <<OrElse(parsed.reasoning, "No reasoning provided")>>)

\* a fallback that does not look at the evidence for its confidence
fallbackVerdictFlat(response, results) ==
  FactCheckResult("unverified", H(FallbackConfidenceWithEvidence), urls(results),
                  <<OrElse(RawText(response), "Unable to verify claim")>>)

\* the inner catch: "Fallback if JSON parsing fails"
fallbackVerdict(response, results) ==
  FactCheckResult("unverified",
                  IF Len(results) > 0 THEN H(FallbackConfidenceWithEvidence)
                  ELSE H(FallbackConfidenceNoEvidence),
                  urls(results),
                  <<OrElse(RawText(response), "Unable to verify claim")>>)

\* an outer catch that does not look at the evidence for its confidence
errorVerdictFlat(message, results) ==
  FactCheckResult("unverified", H(ErrorConfidenceWithEvidence), urls(results),
                  <<"Error during verification: ", message>>)

\* the outer catch: the model call threw
errorVerdict(message, results) ==
  FactCheckResult("unverified",
                  IF Len(results) > 0 THEN H(ErrorConfidenceWithEvidence) ELSE 0,
                  urls(results),
                  <<"Error during verification: ", message>>)

\* whether the inner try block throws: JSON.parse throws, or parsed is null
\* and reading parsed.sources throws a TypeError
innerTryThrows(response) == JSONparse(response).threw \/ JSONparse(response).isNull

\* everything verifyClaim does after the evidence is collected
synthesize(results, cohere) ==
  IF cohere.threw THEN errorVerdict(cohere.message, results)
  ELSE IF innerTryThrows(cohere.text) THEN fallbackVerdict(cohere.text, results)
  ELSE parsedVerdict(JSONparse(cohere.text).value, results, analyzeSourceConflicts(results))

(***************************************************************************)
(* State                                                                   *)
(***************************************************************************)
VARIABLES
  \* one run of verifyClaim, followed await by await
  pc,          \* "collect" (inside the try of line 643), "done"
  claim,       \* the claim text
  collected,   \* externalResults and the record of the adapter calls
  cohere,      \* what callCohere did
  result,      \* the FactCheckResult returned
  conflictAnalysis,  \* what analyzeSourceConflicts returned (line 716)
  feed         \* the items of the feed an adapter run on its own has read

pipelineVars == <<pc, claim, collected, cohere, result, conflictAnalysis, feed>>

VARIABLES
  \* the server: the D1 tables, the clock and the tool calls in flight
  factChecks,        \* rows of fact_checks, in insertion order
  webpageAnalyses,   \* rows of webpage_analyses, in insertion order
  dailyDigests,      \* rows of daily_digests, in insertion order
  now,               \* the clock, in ticks of CURRENT_TIMESTAMP
  req,               \* req[r]: the tool call running in slot r
  history            \* the tool calls that returned, in order of return

storeVars == <<factChecks, webpageAnalyses, dailyDigests>>
serverVars == <<storeVars, now, req, history>>
vars == <<pipelineVars, serverVars>>

NoCohere == [threw |-> FALSE, message |-> "", text |-> NoMembers("empty")]
NoResult == FactCheckResult("", 0, <<>>, <<>>)
NoConflictAnalysis == [hasConflicts |-> FALSE, conflictSummary |-> "", pairs |-> <<>>]

(***************************************************************************)
(* verifyClaim, step by step                                               *)
(***************************************************************************)
IdleRequest ==
  [kind |-> "none", key |-> "", pc |-> "idle", start |-> 0, trending |-> FALSE,
   data |-> <<>>, fetches |-> 0, modelCalls |-> 0, adapterCalls |-> 0, writes |-> 0]

MaxInFlight == 2
Slots == 1..MaxInFlight

ServerInit ==
  /\ factChecks = <<>>
  /\ webpageAnalyses = <<>>
  /\ dailyDigests = <<>>
  /\ now = 0
  /\ req = [r \in Slots |-> IdleRequest]
  /\ history = <<>>

VerifyInit ==
  /\ pc = "collect"
  /\ claim \in Claims
  /\ collected = NoEvidence
  /\ cohere = NoCohere
  /\ result = NoResult
  /\ conflictAnalysis = NoConflictAnalysis
  /\ feed = <<>>
  /\ ServerInit

collectionOver(c, text) == c.caught \/ Len(c.invoked) = Len(AdapterPlan(text))

\* the next `await searchX(claim)` of the try block
CallAdapter ==
  /\ pc = "collect"
  /\ ~collectionOver(collected, claim)
  /\ \E reply \in Replies(AdapterPlan(claim)[Len(collected.invoked) + 1]) :
       collected' = CollectStep(collected, AdapterPlan(claim)[Len(collected.invoked) + 1],
                                claim, reply)
  /\ UNCHANGED <<pc, claim, cohere, result, conflictAnalysis, feed, serverVars>>

\* conflict analysis, prompt, `await callCohere(prompt, apiKey)` and return
CallModel ==
  /\ pc = "collect"
  /\ collectionOver(collected, claim)
  /\ \E reply \in CohereReplies :
       /\ cohere' = callCohere(reply)
       /\ result' = synthesize(collected.externalResults, callCohere(reply))
  /\ conflictAnalysis' = analyzeSourceConflicts(collected.externalResults)
  /\ pc' = "done"
  /\ UNCHANGED <<claim, collected, feed, serverVars>>

VerifyNext == CallAdapter \/ CallModel

VerifySpec == VerifyInit /\ [][VerifyNext]_vars

(***************************************************************************)
(* Properties of verifyClaim (checked under VerifySpec)                    *)
(***************************************************************************)
InUnitInterval(x) == ~isNaN(x) /\ 0 <= x /\ x <= One

\* C1: every Verdict verifyClaim returns has a confidence in [0,1], whatever
\* the model output (valid JSON, malformed text, thrown error, confidence out
\* of range or not a number) and whatever the evidence.
C1_ConfidenceInUnitInterval == pc = "done" => InUnitInterval(result.confidence)

\* C2: the sources of every Verdict verifyClaim returns hold no URL twice, on
\* every return path.
C2_SourcesHaveNoDuplicate == pc = "done" => NoDuplicates(result.sources)

\* C6: when the model call throws, verifyClaim returns (it does not throw) the
\* Verdict: status unverified, confidence 0.4 with evidence and 0 without,
\* sources the evidence URLs only, reasoning the error description.
C6_ModelCallThrows ==
  (pc = "done" /\ cohere.threw) =>
    /\ result.status = "unverified"
    /\ result.confidence =
         (IF Len(collected.externalResults) > 0 THEN H(40) ELSE 0)
    /\ result.sources = urls(collected.externalResults)
    /\ result.reasoning = <<"Error during verification: ", cohere.message>>

C6_Witness ==
  /\ pc = "done" /\ cohere.threw
  /\ Len(collected.externalResults) >= 2
  /\ result.confidence = H(40)

\* the expected payload {status, confidence, sources, reasoning}
isExpectedPayload(g) ==
  /\ g.form = "object"
  /\ g.status /= Undefined
  /\ g.confidence.t = "number"
  /\ g.sources.isArray
  /\ g.reasoning /= Undefined

\* the degraded Verdict of the malformed-output path
isFallbackVerdict(v, response, results) ==
  /\ v.status = "unverified"
  /\ v.confidence = (IF Len(results) > 0 THEN H(60) ELSE H(30))
  /\ v.sources = urls(results)
  /\ v.reasoning =
       <<IF RawText(response) = "" THEN "Unable to verify claim" ELSE RawText(response)>>

\* C7 as stated: whenever the model output is not the expected JSON payload,
\* verifyClaim returns the fallback Verdict (unverified, 0.6 with evidence and
\* 0.3 without, the evidence URLs, the raw text or the fixed string).
C7_MalformedOutputFallsBack ==
  (pc = "done" /\ ~cohere.threw /\ ~isExpectedPayload(cohere.text)) =>
    isFallbackVerdict(result, cohere.text, collected.externalResults)

\* C7 as amended: whenever the model output is no JSON text at all (empty or
\* prose), or is the JSON literal null, verifyClaim returns the fallback
\* Verdict.
C7_UnparseableOutputFallsBack ==
  (pc = "done" /\ ~cohere.threw /\ cohere.text.form \in {"empty", "prose", "null"}) =>
    isFallbackVerdict(result, cohere.text, collected.externalResults)

C7_Witness ==
  /\ pc = "done" /\ ~cohere.threw /\ cohere.text.form = "prose"
  /\ Len(collected.externalResults) > 0
  /\ result.confidence = H(60)

\* the adapters of the plan that returned a record, in plan order
RECURSIVE keep(_, _)
keep(names, S) ==
  IF names = <<>> THEN <<>>
  ELSE (IF Head(names) \in S THEN <<Head(names)>> ELSE <<>>) \o keep(Tail(names), S)

\* C8: a failure inside one adapter is "no match" for that adapter only: the
\* catch of the collector is never entered, every adapter of the plan is
\* awaited whatever failed before it, no failed adapter contributes a record,
\* the records of the others are kept in plan order, and a Verdict is returned.
C8_AdapterFailureIsLocal ==
  /\ ~collected.caught
  /\ \A i \in DOMAIN collected.invoked : collected.invoked[i] = AdapterPlan(claim)[i]
  /\ pc = "done" => collected.invoked = AdapterPlan(claim)
  /\ Len(collected.from) = Len(collected.externalResults)
  /\ collected.from = keep(collected.invoked, SeqToSet(collected.from))
  /\ SeqToSet(collected.from) \cap collected.failed = {}

C8_Witness ==
  /\ pc = "done"
  /\ {"Wikipedia", "Snopes"} \subseteq collected.failed
  /\ collected.from = <<"DuckDuckGo", "Wikidata">>
  /\ result.sources /= <<>>

(***************************************************************************)
(* verifyClaim as one call, for the tool handlers                          *)
(***************************************************************************)
\* the try block of lines 643-713 run to its end; replyOf[a] is what the
\* service behind adapter a answers
RECURSIVE collectAll(_, _, _, _)
collectAll(c, plan, text, replyOf) ==
  IF c.caught \/ Len(c.invoked) = Len(plan) THEN c
  ELSE collectAll(CollectStep(c, plan[Len(c.invoked) + 1], text,
                              replyOf[plan[Len(c.invoked) + 1]]),
                  plan, text, replyOf)

verifyClaim(text, replyOf, cohereReply) ==
  synthesize(collectAll(NoEvidence, AdapterPlan(text), text, replyOf).externalResults,
             callCohere(cohereReply))

\* the answers of the outside world during one tool call: every service
\* behind an adapter is up (and answers its fullest reply) or down
AdapterSet == SeqToSet(AdapterNames)
ServicesUp ==
  [a \in AdapterSet |->
     CASE a = "Wikipedia" -> WikipediaPage
       [] a = "DuckDuckGo" -> DuckDuckGoAbstract
       [] a = "Snopes" -> [net |-> "ok", items |-> SnopesFeed]
       [] a = "Liquipedia" -> LiquipediaPages
       [] a = "ESPN" -> [net |-> "ok", items |-> ESPNFeed]
       [] a = "TheSportsDB" -> SportsDBEvent
       [] a = "PubMed" -> PubMedArticle
       [] a = "WHO" -> [net |-> "ok", items |-> WHOFeed]
       [] a = "SEC" -> SECFiling
       [] a = "arXiv" -> ArXivPaper
       [] a = "Wikidata" -> WikidataEntity]
ServicesDown == [a \in AdapterSet |-> [net |-> "neterror"]]

VerdictGenerations ==
  { Generation("object", "true", JNumber(50), Array(<<WikiUrl>>), "Supported by the sources.") }
Worlds ==
  { [adapters |-> ServicesUp, cohere |-> [net |-> "ok", text |-> g]] :
      g \in VerdictGenerations \cup {NoMembers("prose")} }
  \cup { [adapters |-> ServicesDown, cohere |-> [net |-> "notok", text |-> NoMembers("empty")]] }

(***************************************************************************)
(* The store (D1 through drizzle)                                          *)
(***************************************************************************)
TicksPerDay == 1
MaxTime == 1
\* the calendar day of a timestamp: createdAt >= 'YYYY-MM-DD' compares the
\* day, the date being a prefix of the timestamp format
DayOf(t) == t \div TicksPerDay
Days == 0..DayOf(MaxTime)

\* a text column in JSON mode: JSON.stringify on write, JSON.parse on read
toJson(v) == <<"json", v>>
fromJson(column) == column[2]

\* the rows of a table that satisfy a condition, in table order
Select(rows, Where(_)) == SelectSeq(rows, Where)

Reverse(rows) == [i \in 1..Len(rows) |-> rows[Len(rows) + 1 - i]]
Take(rows, n) == SubSeq(rows, 1, Min(n, Len(rows)))

\* lookups that never find a row
newestChecksNone(text) == {}
analysesOfNone(url) == <<>>
digestsOfNone(date) == <<>>

\* select().from(factChecks).where(eq(claimText, claim))
\*   .orderBy(desc(createdAt)).limit(1): any of the newest rows
newestChecks(text) ==
  LET rows == Select(factChecks, LAMBDA row : row.claimText = text)
  IN {rows[i] : i \in {k \in DOMAIN rows :
                         \A j \in DOMAIN rows : rows[j].createdAt <= rows[k].createdAt}}

analysesOf(url) == Select(webpageAnalyses, LAMBDA row : row.url = url)
digestsOf(date) == Select(dailyDigests, LAMBDA row : row.digestDate = date)

\* a table created without its unique index
noUniqueIndex(rows) == FALSE

\* CREATE UNIQUE INDEX: an insert is rejected when rows, the rows that hold
\* the key of the new row, is not empty
uniqueIndexRejects(rows) == rows /= <<>>

RecentChecksLimit == 20
RecentAnalysesLimit == 10
\* where(gte(createdAt, targetDate)).orderBy(desc(createdAt)).limit(n)
recentChecks(date) ==
  Take(Reverse(Select(factChecks, LAMBDA row : DayOf(row.createdAt) >= date)),
       RecentChecksLimit)
recentAnalyses(date) ==
  Take(Reverse(Select(webpageAnalyses, LAMBDA row : DayOf(row.analyzedAt) >= date)),
       RecentAnalysesLimit)

(***************************************************************************)
(* Tool handlers.  A step of a handler runs from the answer of one store   *)
(* access to the next store access: the awaits on outside services in      *)
(* between read and write nothing shared and are part of the step.  A      *)
(* handler that returns appends its call to history and frees its slot.    *)
(***************************************************************************)
MaxCalls == 3

ErrorResult(prefix, message) ==
  [isError |-> TRUE, cached |-> FALSE, value |-> <<prefix, message>>]
Result(cached, value) == [isError |-> FALSE, cached |-> cached, value |-> value]

InFlight == {r \in Slots : req[r].kind /= "none"}

\* a new call takes the first free slot
Free(r) ==
  /\ req[r].kind = "none"
  /\ \A s \in Slots : s < r => req[s].kind /= "none"
  /\ Len(history) + Cardinality(InFlight) < MaxCalls

NewRequest(kind, key, trending, data) ==
  [kind |-> kind, key |-> key, pc |-> "lookup", start |-> Len(history),
   trending |-> trending, data |-> data, fetches |-> 0, modelCalls |-> 0,
   adapterCalls |-> 0, writes |-> 0]

\* the handler of call q returns resp
Return_(r, q, resp) ==
  /\ req' = [req EXCEPT ![r] = IdleRequest]
  /\ history' = Append(history,
       [kind |-> q.kind, key |-> q.key, resp |-> resp, start |-> q.start,
        fetches |-> q.fetches, modelCalls |-> q.modelCalls,
        adapterCalls |-> q.adapterCalls, writes |-> q.writes])

\* a handler whose catch block lets the error go: the call leaves no result
CatchEscapes(r, q, prefix, message) ==
  /\ req' = [req EXCEPT ![r] = IdleRequest]
  /\ history' = Append(history,
       [kind |-> q.kind, key |-> q.key, resp |-> [escaped |-> message], start |-> q.start,
        fetches |-> q.fetches, modelCalls |-> q.modelCalls,
        adapterCalls |-> q.adapterCalls, writes |-> q.writes])

\* the catch block of a handler: { content: [{type: "text", text}], isError: true }
CatchToErrorResult(r, q, prefix, message) == Return_(r, q, ErrorResult(prefix, message))

\* the handler goes on to its next await
Continue(r, q) ==
  /\ req' = [req EXCEPT ![r] = q]
  /\ UNCHANGED history

StoreError == "D1_ERROR"

Tick ==
  /\ now < MaxTime
  /\ now' = now + 1
  /\ UNCHANGED <<pipelineVars, storeVars, req, history>>

------------------------------------------------------------------------------
\* verify_claim
HandlerClaims == {"Vitamin C cures covid", "The Sun rises in the east"}

\* what verifyClaim can return for a claim, over the answers of the outside world
Verdicts == [text \in HandlerClaims |-> {verifyClaim(text, w.adapters, w.cohere) : w \in Worlds}]

cachedVerdict(row) ==
  FactCheckResult(row.verificationStatus, row.confidenceScore, fromJson(row.sources),
                  row.reasoning)

\* the call arrives; the lookup answers; on a miss verifyClaim runs
VerifyLookup(r) ==
  /\ Free(r)
  /\ \E text \in HandlerClaims :
       LET q == NewRequest("verify_claim", text, FALSE, NoResult)
       IN \/ CatchToErrorResult(r, q, "Error verifying claim: ", StoreError)
          \/ \E existing \in newestChecks(text) :
               Return_(r, q, Result(TRUE, cachedVerdict(existing)))
          \/ /\ newestChecks(text) = {}
             /\ \E verdict \in Verdicts[text] :
                  Continue(r, [q EXCEPT !.pc = "insert",
                                        !.data = verdict,
                                        !.adapterCalls = @ + Len(AdapterPlan(text)),
                                        !.modelCalls = @ + 1])
  /\ UNCHANGED <<pipelineVars, storeVars, now>>

factCheckRow(text, v) ==
  [claimText |-> text, verificationStatus |-> v.status, confidenceScore |-> v.confidence,
   sources |-> toJson(v.sources), reasoning |-> v.reasoning, createdAt |-> now]

\* a handler that returns an unverified Verdict without storing it
VerifyInsertSkipsUnverified(r) ==
  /\ req[r].kind = "verify_claim" /\ req[r].pc = "insert"
  /\ \/ /\ CatchToErrorResult(r, req[r], "Error verifying claim: ", StoreError)
        /\ UNCHANGED factChecks
     \/ /\ req[r].data.status = "unverified"
        /\ Return_(r, req[r], Result(FALSE, req[r].data))
        /\ UNCHANGED factChecks
     \/ /\ req[r].data.status /= "unverified"
        /\ factChecks' = Append(factChecks, factCheckRow(req[r].key, req[r].data))
        /\ Return_(r, [req[r] EXCEPT !.writes = @ + 1], Result(FALSE, req[r].data))
  /\ UNCHANGED <<pipelineVars, webpageAnalyses, dailyDigests, now>>

\* lines 919-929: the insert of the Verdict and the return
VerifyInsert(r) ==
  /\ req[r].kind = "verify_claim" /\ req[r].pc = "insert"
  /\ \/ /\ CatchToErrorResult(r, req[r], "Error verifying claim: ", StoreError)
        /\ UNCHANGED factChecks
     \/ /\ factChecks' = Append(factChecks, factCheckRow(req[r].key, req[r].data))
        /\ Return_(r, [req[r] EXCEPT !.writes = @ + 1], Result(FALSE, req[r].data))
  /\ UNCHANGED <<pipelineVars, webpageAnalyses, dailyDigests, now>>

------------------------------------------------------------------------------
\* analyze_webpage
Urls == {"https://example.org/sunrise"}

PageReplies ==
  { [net |-> "neterror", title |-> Undefined, content |-> ""],
    [net |-> "notok", title |-> Undefined, content |-> ""],
    [net |-> "ok", title |-> Undefined, content |-> "The Sun rises in the east."] }

WebpageContent(title, content, url) == [title |-> title, content |-> content, url |-> url]

scrapeWebpage(url, reply) ==
  IF reply.net /= "ok" THEN Throw
  ELSE Return(WebpageContent(IF reply.title = Undefined THEN "Unknown Title" ELSE reply.title,
                             reply.content, url))

\* the message of the Error scrapeWebpage throws (line 606)
scrapeError(reply) ==
  IF reply.net = "neterror" THEN "Failed to scrape webpage: fetch failed"
  ELSE "Failed to scrape webpage: Failed to fetch webpage: "

\* a JSON array the model generated
JsonArray(items) == [form |-> "array", items |-> items]
\* an array element that is no string
NotAString == "<object>"

ExtractGenerations ==
  { JsonArray(<<"The Sun rises in the east", "Vitamin C cures covid",
                "OG won the dota world cup tournament", "A study says Tesla stock doubled">>),
    JsonArray(<<NotAString>>) }
ExtractReplies ==
  {[net |-> "notok", text |-> NoMembers("empty")]}
  \cup {[net |-> "ok", text |-> g] : g \in ExtractGenerations}

\* lines 995-1003
extractClaims(claimsResponse) ==
  IF JSONparse(claimsResponse).threw \/ claimsResponse.form /= "array"
  THEN <<RawText(claimsResponse)>>
  ELSE claimsResponse.items

ClaimsVerified == 3

NoRun == [threw |-> FALSE, results |-> <<>>, adapterCalls |-> 0, modelCalls |-> 0]

\* lines 1006-1010: verifyClaim on each claim in turn; claim.toLowerCase()
\* throws on a claim that is no string
RECURSIVE verifyEach(_, _, _)
verifyEach(claims, w, done) ==
  IF claims = <<>> THEN done
  ELSE IF Head(claims) = NotAString THEN [done EXCEPT !.threw = TRUE]
  ELSE verifyEach(Tail(claims), w,
         [done EXCEPT !.results = Append(@, [claim |-> Head(claims),
                                            verdict |-> verifyClaim(Head(claims), w.adapters,
                                                                    w.cohere)]),
                      !.adapterCalls = @ + Len(AdapterPlan(Head(claims))),
                      !.modelCalls = @ + 1])

\* a bucketing of the first Verdict instead of the mean
credibilityOfFirst(results) ==
  IF results = <<>> \/ isNaN(results[1].verdict.confidence) THEN "unknown"
  ELSE IF results[1].verdict.confidence * 10 >= 8 * One THEN "high"
  ELSE IF results[1].verdict.confidence * 10 >= 6 * One THEN "medium"
  ELSE IF results[1].verdict.confidence * 10 >= 3 * One THEN "low"
  ELSE "unknown"

\* lines 1013-1022; the mean is NaN over no result and over a NaN confidence
overallCredibility(results) ==
  LET n == Len(results)
      sum == SumConfidence([i \in DOMAIN results |-> results[i].verdict])
  IN IF n = 0 \/ \E i \in DOMAIN results : isNaN(results[i].verdict.confidence) THEN "unknown"
     ELSE IF sum * 10 >= 8 * n * One THEN "high"
     ELSE IF sum * 10 >= 6 * n * One THEN "medium"
     ELSE IF sum * 10 >= 3 * n * One THEN "low"
     ELSE "unknown"

SummaryTexts == {"Mostly reliable."}
SummaryReplies ==
  {[net |-> "notok", text |-> ""]} \cup {[net |-> "ok", text |-> t] : t \in SummaryTexts}

NoAnalysis ==
  [webContent |-> WebpageContent("", "", ""), extractedClaims |-> <<>>,
   factCheckResults |-> <<>>, overallCredibility |-> "unknown", summary |-> ""]

\* an analysis that asks the model for the claims of the page before it looks
\* at the outcome of the fetch, and gives up after that
analyzeRunModelFirst(url, page, extract, w, summaryReply) ==
  [threw |-> TRUE,
   message |-> IF scrapeWebpage(url, page).threw THEN scrapeError(page)
               ELSE callCohere(extract).message,
   data |-> NoAnalysis, fetches |-> 1, modelCalls |-> 1, adapterCalls |-> 0]

\* lines 982-1034, from the miss to the insert: what the call holds when it
\* reaches the insert, or the error it throws on the way, with the fetches
\* and calls made until then
analyzeRun(url, page, extract, w, summaryReply) ==
  LET webContent == scrapeWebpage(url, page)
      claimsResponse == callCohere(extract)
      extractedClaims == extractClaims(claimsResponse.text)
      run == verifyEach(Take(extractedClaims, ClaimsVerified), w, NoRun)
      summary == callCohere(summaryReply)
      Outcome(threw, message, data, modelCalls, adapterCalls) ==
        [threw |-> threw, message |-> message, data |-> data, fetches |-> 1,
         modelCalls |-> modelCalls, adapterCalls |-> adapterCalls]
  IN IF webContent.threw
       THEN Outcome(TRUE, scrapeError(page), NoAnalysis, 0, 0)
     ELSE IF claimsResponse.threw
       THEN Outcome(TRUE, claimsResponse.message, NoAnalysis, 1, 0)
     ELSE IF run.threw
       THEN Outcome(TRUE, "claim.toLowerCase is not a function", NoAnalysis,
                    1 + run.modelCalls, run.adapterCalls)
     ELSE IF summary.threw
       THEN Outcome(TRUE, summary.message, NoAnalysis, 2 + run.modelCalls, run.adapterCalls)
     ELSE Outcome(FALSE, "",
                  [webContent |-> webContent.value[1],
                   extractedClaims |-> extractedClaims,
                   factCheckResults |-> run.results,
                   overallCredibility |-> overallCredibility(run.results),
                   summary |-> summary.text],
                  2 + run.modelCalls, run.adapterCalls)

\* the runs of an analysis of a url, over the answers of the outside world
AnalysisRuns ==
  [url \in Urls |->
     {analyzeRun(url, page, extract, w, summaryReply) :
        page \in PageReplies, extract \in ExtractReplies, w \in Worlds,
        summaryReply \in SummaryReplies}]

cachedAnalysis(row) ==
  [title |-> row.title, summary |-> row.summary,
   overallCredibility |-> row.overallCredibility,
   claimsExtracted |-> fromJson(row.claimsExtracted)]

\* the call arrives; the lookup answers; on a miss the page is fetched,
\* its claims extracted and verified and the summary written
AnalyzeLookup(r) ==
  /\ Free(r)
  /\ \E url \in Urls :
       LET q == NewRequest("analyze_webpage", url, FALSE, NoAnalysis)
       IN \/ CatchToErrorResult(r, q, "Error analyzing webpage: ", StoreError)
          \/ /\ analysesOf(url) /= <<>>
             /\ Return_(r, q, Result(TRUE, cachedAnalysis(analysesOf(url)[1])))
          \/ /\ analysesOf(url) = <<>>
             /\ \E run \in AnalysisRuns[url] :
                  LET q1 == [q EXCEPT !.pc = "insert", !.data = run.data,
                                      !.fetches = run.fetches,
                                      !.modelCalls = run.modelCalls,
                                      !.adapterCalls = run.adapterCalls]
                  IN IF run.threw
                     THEN CatchToErrorResult(r, q1, "Error analyzing webpage: ", run.message)
                     ELSE Continue(r, q1)
  /\ UNCHANGED <<pipelineVars, storeVars, now>>

analysisRow(url, a) ==
  [url |-> url, title |-> a.webContent.title, summary |-> a.summary,
   claimsExtracted |-> toJson(a.extractedClaims),
   overallCredibility |-> a.overallCredibility,
   factCheckResults |-> toJson(a.factCheckResults), analyzedAt |-> now]

\* a handler that also stores the Verdict of each claim it verified
AnalyzeInsertStoresVerdicts(r) ==
  /\ req[r].kind = "analyze_webpage" /\ req[r].pc = "insert"
  /\ \/ /\ CatchToErrorResult(r, req[r], "Error analyzing webpage: ", StoreError)
        /\ UNCHANGED <<webpageAnalyses, factChecks>>
     \/ /\ uniqueIndexRejects(analysesOf(req[r].key))
        /\ CatchToErrorResult(r, req[r], "Error analyzing webpage: ",
                              "UNIQUE constraint failed: webpage_analyses.url")
        /\ UNCHANGED <<webpageAnalyses, factChecks>>
     \/ /\ ~uniqueIndexRejects(analysesOf(req[r].key))
        /\ webpageAnalyses' = Append(webpageAnalyses, analysisRow(req[r].key, req[r].data))
        /\ factChecks' = factChecks \o
             [k \in DOMAIN req[r].data.factCheckResults |->
                factCheckRow(req[r].data.factCheckResults[k].claim,
                             req[r].data.factCheckResults[k].verdict)]
        /\ Return_(r, [req[r] EXCEPT !.writes = @ + 1],
                   Result(FALSE, [title |-> req[r].data.webContent.title,
                                  summary |-> req[r].data.summary,
                                  overallCredibility |-> req[r].data.overallCredibility,
                                  claimsExtracted |-> req[r].data.extractedClaims,
                                  factCheckResults |-> req[r].data.factCheckResults]))
  /\ UNCHANGED <<pipelineVars, dailyDigests, now>>

\* the UNIQUE index on url rejects a second row for the url
AnalyzeInsert(r) ==
  /\ req[r].kind = "analyze_webpage" /\ req[r].pc = "insert"
  /\ \/ /\ CatchToErrorResult(r, req[r], "Error analyzing webpage: ", StoreError)
        /\ UNCHANGED webpageAnalyses
     \/ /\ uniqueIndexRejects(analysesOf(req[r].key))
        /\ CatchToErrorResult(r, req[r], "Error analyzing webpage: ",
                              "UNIQUE constraint failed: webpage_analyses.url")
        /\ UNCHANGED webpageAnalyses
     \/ /\ ~uniqueIndexRejects(analysesOf(req[r].key))
        /\ webpageAnalyses' = Append(webpageAnalyses, analysisRow(req[r].key, req[r].data))
        /\ Return_(r, [req[r] EXCEPT !.writes = @ + 1],
                   Result(FALSE, [title |-> req[r].data.webContent.title,
                                  summary |-> req[r].data.summary,
                                  overallCredibility |-> req[r].data.overallCredibility,
                                  claimsExtracted |-> req[r].data.extractedClaims,
                                  factCheckResults |-> req[r].data.factCheckResults]))
  /\ UNCHANGED <<pipelineVars, factChecks, dailyDigests, now>>

------------------------------------------------------------------------------
\* generate_daily_digest
NoDate == 0 - 1
Today == DayOf(now)

Topic(topic, description) == [topic |-> topic, description |-> description]
TrendingGenerations ==
  { JsonArray(<<Topic("Health", "Several claims about vitamins")>>), NoMembers("prose") }
TrendingReplies ==
  {[net |-> "notok", text |-> NoMembers("empty")]}
  \cup {[net |-> "ok", text |-> g] : g \in TrendingGenerations}

\* lines 1125-1130: the parsed value whatever its shape
trendingOf(reply) ==
  IF callCohere(reply).threw \/ JSONparse(callCohere(reply).text).threw
  THEN <<Topic("Analysis Error", "Unable to identify trending topics")>>
  ELSE callCohere(reply).text.items

DigestTexts == {"A quiet day."}
DigestReplies ==
  {[net |-> "notok", text |-> ""]} \cup {[net |-> "ok", text |-> t] : t \in DigestTexts}

NoDigest ==
  [recentChecks |-> <<>>, recentAnalyses |-> <<>>, trendingClaims |-> <<>>, summary |-> ""]

cachedDigest(row) ==
  [summary |-> row.summary, trendingClaims |-> fromJson(row.trendingClaims)]

\* the call arrives (line 1079: targetDate = date || today); the lookup answers
DigestLookup(r) ==
  /\ Free(r)
  /\ \E date \in Days \cup {NoDate}, include_trending \in BOOLEAN :
       LET q == NewRequest("generate_daily_digest", IF date = NoDate THEN Today ELSE date,
                           include_trending, NoDigest)
       IN \/ CatchToErrorResult(r, q, "Error generating daily digest: ", StoreError)
          \/ /\ digestsOf(q.key) /= <<>>
             /\ Return_(r, q, Result(TRUE, cachedDigest(digestsOf(q.key)[1])))
          \/ /\ digestsOf(q.key) = <<>>
             /\ Continue(r, [q EXCEPT !.pc = "checks"])
  /\ UNCHANGED <<pipelineVars, storeVars, now>>

DigestChecks(r) ==
  /\ req[r].kind = "generate_daily_digest" /\ req[r].pc = "checks"
  /\ \/ CatchToErrorResult(r, req[r], "Error generating daily digest: ", StoreError)
     \/ Continue(r, [req[r] EXCEPT !.pc = "analyses",
                                   !.data.recentChecks = recentChecks(req[r].key)])
  /\ UNCHANGED <<pipelineVars, storeVars, now>>

\* lines 1116-1145, from the answer of the second query to the insert
composeDigest(q, analyses, trendingReply, summaryReply) ==
  LET trending == q.trending /\ q.data.recentChecks /= <<>>
      q1 == [q EXCEPT !.data.recentAnalyses = analyses,
                      !.data.trendingClaims = IF trending THEN trendingOf(trendingReply) ELSE <<>>,
                      !.modelCalls = @ + (IF trending THEN 1 ELSE 0)]
      summary == callCohere(summaryReply)
      q2 == [q1 EXCEPT !.modelCalls = @ + 1]
  IN IF summary.threw THEN [threw |-> TRUE, message |-> summary.message, q |-> q2]
     ELSE [threw |-> FALSE, message |-> "",
           q |-> [q2 EXCEPT !.pc = "insert", !.data.summary = summary.text]]

DigestAnalyses(r) ==
  /\ req[r].kind = "generate_daily_digest" /\ req[r].pc = "analyses"
  /\ \/ CatchToErrorResult(r, req[r], "Error generating daily digest: ", StoreError)
     \/ \E trendingReply \in TrendingReplies, summaryReply \in DigestReplies :
          LET run == composeDigest(req[r], recentAnalyses(req[r].key), trendingReply,
                                   summaryReply)
          IN IF run.threw
             THEN CatchToErrorResult(r, run.q, "Error generating daily digest: ", run.message)
             ELSE Continue(r, run.q)
  /\ UNCHANGED <<pipelineVars, storeVars, now>>

digestRow(date, d) ==
  [digestDate |-> date, trendingClaims |-> toJson(d.trendingClaims), summary |-> d.summary,
   generatedAt |-> now]

\* the UNIQUE index on digest_date rejects a second row for the date
DigestInsert(r) ==
  /\ req[r].kind = "generate_daily_digest" /\ req[r].pc = "insert"
  /\ \/ /\ CatchToErrorResult(r, req[r], "Error generating daily digest: ", StoreError)
        /\ UNCHANGED dailyDigests
     \/ /\ uniqueIndexRejects(digestsOf(req[r].key))
        /\ CatchToErrorResult(r, req[r], "Error generating daily digest: ",
                              "UNIQUE constraint failed: daily_digests.digest_date")
        /\ UNCHANGED dailyDigests
     \/ /\ ~uniqueIndexRejects(digestsOf(req[r].key))
        /\ dailyDigests' = Append(dailyDigests, digestRow(req[r].key, req[r].data))
        /\ Return_(r, [req[r] EXCEPT !.writes = @ + 1],
                   Result(FALSE, [summary |-> req[r].data.summary,
                                  trendingClaims |-> req[r].data.trendingClaims]))
  /\ UNCHANGED <<pipelineVars, factChecks, webpageAnalyses, now>>

------------------------------------------------------------------------------
Init ==
  /\ pc = "done"
  /\ claim = ""
  /\ collected = NoEvidence
  /\ cohere = NoCohere
  /\ result = NoResult
  /\ conflictAnalysis = NoConflictAnalysis
  /\ feed = <<>>
  /\ ServerInit

Next ==
  \/ Tick
  \/ \E r \in Slots : VerifyLookup(r)
  \/ \E r \in Slots : VerifyInsert(r)
  \/ \E r \in Slots : AnalyzeLookup(r)
  \/ \E r \in Slots : AnalyzeInsert(r)
  \/ \E r \in Slots : DigestLookup(r)
  \/ \E r \in Slots : DigestChecks(r)
  \/ \E r \in Slots : DigestAnalyses(r)
  \/ \E r \in Slots : DigestInsert(r)

Spec == Init /\ [][Next]_vars

(***************************************************************************)
(* Properties of the tool handlers (under Spec)                            *)
(***************************************************************************)
Calls == DOMAIN history
SameKey(i, j) == history[i].kind = history[j].kind /\ history[i].key = history[j].key
\* call j arrived after call i had returned
After(j, i) == history[j].start >= i
\* call i returned a result that is in the store: it wrote it or it read it
Stored(i) == ~history[i].resp.isError
\* call j did nothing but the lookup
OnlyLookedUp(j) ==
  /\ history[j].fetches = 0
  /\ history[j].modelCalls = 0
  /\ history[j].adapterCalls = 0
  /\ history[j].writes = 0
StoreFailed(j) == history[j].resp.isError /\ history[j].resp.value[2] = StoreError
\* no two of the calls 1..j with the kind and key of call j ran at the same time
SequentialUpTo(j) ==
  \A a, b \in 1..j : (a < b /\ SameKey(a, j) /\ SameKey(b, j)) => After(b, a)

\* C3: a verify_claim call that arrives after a call with the same claim
\* text has returned a Verdict invokes no adapter and no model and inserts
\* no row; unless the lookup itself fails it returns a stored Verdict of
\* that claim, and when the calls on that claim came one after the other it
\* is the Verdict the earlier call returned.
C3_RepeatedClaimIsServedFromStore ==
  \A i, j \in Calls :
    (history[i].kind = "verify_claim" /\ SameKey(i, j) /\ i < j /\ After(j, i) /\ Stored(i))
    => /\ OnlyLookedUp(j)
       /\ \/ StoreFailed(j)
          \/ /\ history[j].resp.cached
             /\ \E k \in DOMAIN factChecks :
                  /\ factChecks[k].claimText = history[j].key
                  /\ history[j].resp.value = cachedVerdict(factChecks[k])
             /\ SequentialUpTo(j) => history[j].resp.value = history[i].resp.value

C3_Witness ==
  \E i, j \in Calls :
    /\ history[i].kind = "verify_claim" /\ SameKey(i, j) /\ i < j /\ After(j, i)
    /\ history[i].writes = 1 /\ history[i].adapterCalls > 0
    /\ history[i].resp.value.sources /= <<>>
    /\ history[j].resp.cached
    /\ history[j].resp.value = history[i].resp.value

\* C4: an analyze_webpage call for a URL that is in the store when the call
\* arrives fetches nothing, calls no model and no adapter, writes nothing
\* and, unless the lookup itself fails, returns the stored analysis.
C4_StoredUrlIsNotAnalyzedAgain ==
  \A i, j \in Calls :
    (history[i].kind = "analyze_webpage" /\ SameKey(i, j) /\ i < j /\ After(j, i) /\ Stored(i))
    => /\ OnlyLookedUp(j)
       /\ \/ StoreFailed(j)
          \/ /\ history[j].resp.cached
             /\ Len(analysesOf(history[j].key)) = 1
             /\ history[j].resp.value = cachedAnalysis(analysesOf(history[j].key)[1])

C4_Witness ==
  \E i, j \in Calls :
    /\ history[i].kind = "analyze_webpage" /\ SameKey(i, j) /\ i < j /\ After(j, i)
    /\ history[i].writes = 1 /\ history[i].fetches = 1 /\ history[i].modelCalls > 2
    /\ history[j].resp.cached
    /\ history[j].resp.value.claimsExtracted = history[i].resp.value.claimsExtracted

\* C5: a generate_daily_digest call that arrives after a call for the same
\* date has returned a digest runs no trending analysis and no summary call
\* and inserts nothing, whatever was stored in between; unless the lookup
\* itself fails it returns the digest the earlier call returned.
C5_DigestIsGeneratedOnce ==
  \A i, j \in Calls :
    (history[i].kind = "generate_daily_digest" /\ SameKey(i, j) /\ i < j /\ After(j, i)
       /\ Stored(i))
    => /\ OnlyLookedUp(j)
       /\ \/ StoreFailed(j)
          \/ /\ history[j].resp.cached
             /\ history[j].resp.value = history[i].resp.value

\* a digest, then a fact-check stored in the digest's window, then the digest again
C5_Witness ==
  \E i, k, j \in Calls :
    /\ history[i].kind = "generate_daily_digest" /\ SameKey(i, j)
    /\ i < k /\ k < j /\ After(k, i) /\ After(j, k)
    /\ history[i].writes = 1
    /\ history[k].kind = "verify_claim" /\ history[k].writes = 1
    /\ recentChecks(history[j].key) /= <<>>
    /\ history[j].resp.cached
    /\ history[j].resp.value = history[i].resp.value

ErrorPrefix(kind) ==
  CASE kind = "verify_claim" -> "Error verifying claim: "
    [] kind = "analyze_webpage" -> "Error analyzing webpage: "
    [] kind = "generate_daily_digest" -> "Error generating daily digest: "

\* C9: every call of the three tools that ends has ended with a result: a
\* well-formed success result or an explicit error result that carries the
\* tool's error text; no call ends with an exception.
C9_EveryCallEndsInAResult ==
  \A i \in Calls :
    /\ DOMAIN history[i].resp = {"isError", "cached", "value"}
    /\ history[i].resp.isError \in BOOLEAN
    /\ history[i].resp.isError =>
         /\ history[i].resp.value[1] = ErrorPrefix(history[i].kind)
         /\ history[i].resp.value[2] /= ""

\* each tool has met a store failure, one of them on the write after the model ran
C9_Witness ==
  /\ \A kind \in {"verify_claim", "analyze_webpage", "generate_daily_digest"} :
       \E i \in Calls : history[i].kind = kind /\ StoreFailed(i)
  /\ \E i \in Calls : StoreFailed(i) /\ history[i].modelCalls > 0

UniqueViolation(i) ==
  /\ history[i].resp.isError
  /\ history[i].resp.value[2] \in {"UNIQUE constraint failed: webpage_analyses.url",
                                   "UNIQUE constraint failed: daily_digests.digest_date"}

\* C10: of two calls for the same key that ran at the same time and both
\* missed the lookup, neither ends in an error result because of the other.
C10_RaceEndsWithoutError ==
  \A i, j \in Calls :
    (i < j /\ SameKey(i, j) /\ ~After(j, i)
       /\ ~history[i].resp.cached /\ ~history[j].resp.cached)
    => ~UniqueViolation(j)

(***************************************************************************)
(* analyzeSourceConflicts on its own: the evidence list is any list of up  *)
(* to MaxEvidence records, labelled or not                                 *)
(***************************************************************************)
MaxEvidence == 3

EvidenceLabels == {"True", "FALSE", "Partly true, partly false"}
EvidenceSummaries ==
  { <<"OG lifted the trophy.">>, <<"OG won the final.">>, <<"OG lost the final.">>,
    <<"Yes">>, <<"No summary available">>,
    <<"True: the sun rises in the east.">>, <<"This claim is false.">> }

\* a record as a fact-check feed builds it, and one as the other adapters do
EvidenceRecords ==
  { Rec("Snopes", label, summary, <<"https://www.snopes.com/fact-check/og/">>,
        H(SnopesConfidence)) :
      label \in EvidenceLabels, summary \in {<<"OG lifted the trophy.">>, <<"OG won the final.">>} }
  \cup
  { Rec("Wikipedia", Undefined, summary, WikiUrl, H(WikipediaConfidence)) :
      summary \in EvidenceSummaries }

EvidenceLists == UNION {[1..n -> EvidenceRecords] : n \in 0..MaxEvidence}

ConflictInit ==
  /\ pc = "analyze"
  /\ claim = ""
  /\ \E results \in EvidenceLists : collected = [NoEvidence EXCEPT !.externalResults = results]
  /\ cohere = NoCohere
  /\ result = NoResult
  /\ conflictAnalysis = NoConflictAnalysis
  /\ feed = <<>>
  /\ ServerInit

\* line 716: const conflictAnalysis = analyzeSourceConflicts(externalResults)
AnalyzeConflicts ==
  /\ pc = "analyze"
  /\ conflictAnalysis' = analyzeSourceConflicts(collected.externalResults)
  /\ pc' = "analyzed"
  /\ UNCHANGED <<claim, collected, cohere, result, feed, serverVars>>

ConflictNext == AnalyzeConflicts

ConflictSpec == ConflictInit /\ [][ConflictNext]_vars

(***************************************************************************)
(* Properties of analyzeSourceConflicts (under ConflictSpec)               *)
(***************************************************************************)
Evidence == collected.externalResults
\* the label of record i, case-folded, contains the word
LabelSays(i, word) ==
  Evidence[i].verdict /= Undefined /\ Evidence[i].verdict /= ""
  /\ word \in KeywordsOf(Evidence[i].verdict)
\* the summary of record i, case-folded, contains the word
SummarySays(i, word) == \E f \in DOMAIN Evidence[i].summary : word \in KeywordsOf(Evidence[i].summary[f])

\* C11: on an evidence list of fewer than 2 records the analyzer returns
\* hasConflicts = false and an empty explanation, whatever the label and the
\* summary of the single record.
C11_ShortListHasNoConflict ==
  (pc = "analyzed" /\ Len(Evidence) < 2) =>
    /\ conflictAnalysis.hasConflicts = FALSE
    /\ conflictAnalysis.conflictSummary = ""

\* a single record whose label says both true and false
C11_Witness ==
  /\ pc = "analyzed" /\ Len(Evidence) = 1
  /\ LabelSays(1, "true") /\ LabelSays(1, "false")
  /\ ~conflictAnalysis.hasConflicts

LabelsOppose ==
  \E i, j \in DOMAIN Evidence : i /= j /\ LabelSays(i, "true") /\ LabelSays(j, "false")

\* C12 as stated: two different records labelled "True" and "False" (any
\* letter case) give hasConflicts = true with the explanation
\* "Sources provide conflicting verdicts."
C12_OpposingLabelsFixedText ==
  (pc = "analyzed" /\ LabelsOppose) =>
    /\ conflictAnalysis.hasConflicts
    /\ conflictAnalysis.conflictSummary = "Sources provide conflicting verdicts."

\* C12 as amended: two different records labelled "True" and "False" (any
\* letter case) give hasConflicts = true with the explanation "Sources
\* provide conflicting verdicts (some say true, others say false)".
C12_OpposingLabelsConflict ==
  (pc = "analyzed" /\ LabelsOppose) =>
    /\ conflictAnalysis.hasConflicts
    /\ conflictAnalysis.conflictSummary =
         "Sources provide conflicting verdicts (some say true, others say false)"

\* the label FALSE comes first, the label True second, the summaries agree
C12_Witness ==
  /\ pc = "analyzed" /\ Len(Evidence) = 2
  /\ Evidence[1].verdict = "FALSE" /\ Evidence[2].verdict = "True"
  /\ Evidence[1].summary = Evidence[2].summary
  /\ conflictAnalysis.hasConflicts

Antonyms == {<<"won", "lost">>, <<"true", "false">>, <<"yes", "no">>}
\* one summary of the pair contains a word and the other its antonym
PairOpposes(i, j) ==
  \E a \in Antonyms : \/ SummarySays(i, a[1]) /\ SummarySays(j, a[2])
                      \/ SummarySays(j, a[1]) /\ SummarySays(i, a[2])
NoLabelConflict ==
  ~((\E i \in DOMAIN Evidence : LabelSays(i, "true"))
      /\ (\E i \in DOMAIN Evidence : LabelSays(i, "false")))

\* C13: when no label conflict is found, every unordered pair of records
\* whose summaries hold an antonym pair is flagged, whichever of the two
\* comes first, and hasConflicts is true iff a pair is flagged.
C13_EveryOpposingPairIsFlagged ==
  (pc = "analyzed" /\ Len(Evidence) >= 2 /\ NoLabelConflict) =>
    /\ \A i, j \in DOMAIN Evidence :
         (i < j /\ PairOpposes(i, j)) =>
           \E k \in DOMAIN conflictAnalysis.pairs :
             conflictAnalysis.pairs[k] = <<Evidence[i].source, Evidence[j].source>>
    /\ conflictAnalysis.hasConflicts <=> (\E i, j \in DOMAIN Evidence : i < j /\ PairOpposes(i, j))

(***************************************************************************)
(* The credibility of an analysis on its own: an analyze_webpage call that *)
(* has verified its claims, with any confidences in the Verdicts           *)
(***************************************************************************)
VerdictConfidences ==
  {0, H(10), H(30), H(35), H(60), H(65), H(80), H(85), One, NaN}

VerifiedClaims ==
  { [claim |-> "The Sun rises in the east",
     verdict |-> FactCheckResult("unverified", c, <<>>, <<"Supported by the sources.">>)] :
      c \in VerdictConfidences }

\* factCheckResults after the loop of lines 1007-1010
VerifiedLists == UNION {[1..n -> VerifiedClaims] : n \in 0..ClaimsVerified}

CredibilityInit ==
  /\ pc = "done"
  /\ claim = ""
  /\ collected = NoEvidence
  /\ cohere = NoCohere
  /\ result = NoResult
  /\ conflictAnalysis = NoConflictAnalysis
  /\ feed = <<>>
  /\ factChecks = <<>> /\ webpageAnalyses = <<>> /\ dailyDigests = <<>>
  /\ now = 0
  /\ history = <<>>
  /\ \E url \in Urls, results \in VerifiedLists :
       req = [r \in Slots |->
                IF r = 1
                THEN [NewRequest("analyze_webpage", url, FALSE,
                                 [NoAnalysis EXCEPT !.factCheckResults = results])
                        EXCEPT !.pc = "credibility"]
                ELSE IdleRequest]

\* lines 1013-1022
DetermineCredibility(r) ==
  /\ req[r].kind = "analyze_webpage" /\ req[r].pc = "credibility"
  /\ req' = [req EXCEPT ![r].pc = "summary",
                        ![r].data.overallCredibility =
                           overallCredibility(req[r].data.factCheckResults)]
  /\ UNCHANGED <<pipelineVars, storeVars, now, history>>

CredibilityNext == \E r \in Slots : DetermineCredibility(r)

CredibilitySpec == CredibilityInit /\ [][CredibilityNext]_vars

\* the confidences of the Verdicts of call r, and their sum
ConfidencesOf(r) ==
  [i \in DOMAIN req[r].data.factCheckResults |-> req[r].data.factCheckResults[i].verdict.confidence]
RECURSIVE Sum(_)
Sum(cs) == IF cs = <<>> THEN 0 ELSE Head(cs) + Sum(Tail(cs))
\* the mean of cs is a number and at least h hundredths
MeanAtLeast(cs, h) ==
  /\ cs /= <<>>
  /\ \A i \in DOMAIN cs : ~isNaN(cs[i])
  /\ 100 * (Sum(cs) \div Pct) >= h * Len(cs) * 100

C15_ConfidenceAtLeastEvidenceShare ==
  (/\ pc = "done"
   /\ Len(collected.externalResults) > 0
   /\ ~conflictAnalysis.hasConflicts)
  => /\ ~isNaN(result.confidence)
     /\ result.confidence >= Times(avgExternalConfidence(collected.externalResults), 8)

GeneralAdapters == {"Wikipedia", "DuckDuckGo", "Snopes", "Wikidata"}
Tags == {"esports", "sports", "medical", "financial", "scientific"}
TagAdapters(tag) ==
  CASE tag = "esports" -> {"Liquipedia"}
    [] tag = "sports" -> {"ESPN", "TheSportsDB"}
    [] tag = "medical" -> {"PubMed", "WHO"}
    [] tag = "financial" -> {"SEC"}
    [] tag = "scientific" -> {"arXiv"}
HasTag(text, tag) ==
  CASE tag = "esports" -> isEsports(text)
    [] tag = "sports" -> isSports(text)
    [] tag = "medical" -> isMedical(text)
    [] tag = "financial" -> isFinancial(text)
    [] tag = "scientific" -> isScientific(text)
Invoked == {collected.invoked[i] : i \in DOMAIN collected.invoked}

\* C16: the adapters verifyClaim invokes are exactly the four general ones
\* plus, for each classifier tag of the claim, that tag's adapters: a tag's
\* adapters are invoked when the tag is present, whatever the other tags,
\* and never when it is absent.
C16_InvokedAdaptersFollowTags ==
  /\ \A tag \in Tags : ~HasTag(claim, tag) => Invoked \cap TagAdapters(tag) = {}
  /\ pc = "done" =>
       /\ GeneralAdapters \subseteq Invoked
       /\ \A tag \in Tags : HasTag(claim, tag) => TagAdapters(tag) \subseteq Invoked
       /\ Invoked \subseteq GeneralAdapters \cup UNION {TagAdapters(tag) : tag \in Tags}

\* a claim with two tags and without the three others, verified
C16_Witness ==
  /\ pc = "done"
  /\ HasTag(claim, "esports") /\ HasTag(claim, "sports") /\ ~HasTag(claim, "medical")
  /\ Invoked = GeneralAdapters \cup {"Liquipedia", "ESPN", "TheSportsDB"}

FixedOrder ==
  <<"Wikipedia", "DuckDuckGo", "Snopes", "Liquipedia", "ESPN", "TheSportsDB",
    "PubMed", "WHO", "SEC", "arXiv", "Wikidata">>
\* the place of an adapter in FixedOrder
Place(adapter) == CHOOSE k \in DOMAIN FixedOrder : FixedOrder[k] = adapter
\* seq lists adapters of FixedOrder, each after the ones before it in FixedOrder
InFixedOrder(seq) ==
  /\ \A i \in DOMAIN seq : \E k \in DOMAIN FixedOrder : FixedOrder[k] = seq[i]
  /\ \A i, j \in DOMAIN seq : i < j => Place(seq[i]) < Place(seq[j])

\* C17: the adapters are invoked in one fixed order (Wikipedia, DuckDuckGo,
\* Snopes, then the domain-specific ones, then Wikidata last), the evidence
\* list is a subsequence of that order, and an adapter call has returned,
\* with its record in the list, before the next one starts: every record is
\* of an adapter invoked earlier, and no record of an earlier adapter comes
\* after the last call.
C17_AdaptersRunInFixedOrder ==
  /\ InFixedOrder(collected.invoked)
  /\ InFixedOrder(collected.from)
  /\ Len(collected.from) = Len(collected.externalResults)
  /\ \A i \in DOMAIN collected.from : collected.from[i] \in Invoked
  /\ pc = "done" /\ ~collected.caught =>
       collected.invoked[Len(collected.invoked)] = "Wikidata"

\* C17, the calls one after the other: one step of the collection awaits one
\* adapter, and the evidence list only grows at its end
C17_OneCallAtATime ==
  [][/\ Len(collected'.invoked) <= Len(collected.invoked) + 1
     /\ \A i \in DOMAIN collected.externalResults :
          /\ i \in DOMAIN collected'.externalResults
          /\ collected'.externalResults[i] = collected.externalResults[i]]_vars

\* records of a general source, a domain-specific one and Wikidata, in order
C17_Witness ==
  /\ pc = "done"
  /\ Len(collected.from) >= 3
  /\ collected.from[1] \in {"Wikipedia", "DuckDuckGo", "Snopes"}
  /\ \E i \in DOMAIN collected.from : collected.from[i] \in {"PubMed", "WHO", "ESPN"}
  /\ collected.from[Len(collected.from)] = "Wikidata"

(***************************************************************************)
(* Properties of the tool handlers (Spec), continued                       *)
(***************************************************************************)
\* call i ended in the error scrapeWebpage throws
ScrapeFailed(i) ==
  /\ history[i].kind = "analyze_webpage"
  /\ history[i].resp.isError
  /\ history[i].resp.value[2] \in {scrapeError(page) : page \in PageReplies}
\* no row of the key of call j was in the store when call j arrived
NoRowAtArrival(j) ==
  \A k \in 1..history[j].start : SameKey(k, j) => history[k].writes = 0

\* C18: an analyze_webpage call whose page fetch fails (network error or
\* non-2xx response) ends with an error result after one fetch, no model
\* call, no adapter call and no insert; and a later call for the same URL
\* that finds no row for it fetches the page again, unless its lookup fails.
C18_FailedFetchIsNotRecovered ==
  \A i \in Calls :
    ScrapeFailed(i) =>
      /\ history[i].resp.value[1] = "Error analyzing webpage: "
      /\ history[i].fetches = 1
      /\ history[i].modelCalls = 0
      /\ history[i].adapterCalls = 0
      /\ history[i].writes = 0
      /\ \A j \in Calls :
           (i < j /\ SameKey(i, j) /\ After(j, i) /\ NoRowAtArrival(j))
           => /\ ~history[j].resp.cached
              /\ StoreFailed(j) \/ history[j].fetches = 1

\* C18, the store: the step in which a call returns the error of a failed
\* fetch leaves the three tables as they were
C18_FailedFetchLeavesStore ==
  [][(/\ Len(history') = Len(history) + 1
      /\ history'[Len(history')].kind = "analyze_webpage"
      /\ history'[Len(history')].resp.isError
      /\ history'[Len(history')].resp.value[2] \in {scrapeError(page) : page \in PageReplies})
     => UNCHANGED storeVars]_vars

\* a fetch that failed on the network, then a call for the same URL that
\* fetched again and stored its analysis
C18_Witness ==
  \E i, j \in Calls :
    /\ i < j /\ SameKey(i, j) /\ After(j, i)
    /\ ScrapeFailed(i) /\ history[i].resp.value[2] = "Failed to scrape webpage: fetch failed"
    /\ webpageAnalyses /= <<>>
    /\ history[j].fetches = 1 /\ history[j].writes = 1 /\ ~history[j].resp.isError

\* C19: the digest of a target date aggregates the Verdicts and the analyses
\* created on that calendar day: every record a generate_daily_digest call
\* has read for its digest was created on the day the digest is for, none on
\* a later day.
C19_DigestAggregatesItsDayOnly ==
  \A r \in Slots :
    req[r].kind = "generate_daily_digest" =>
      /\ \A k \in DOMAIN req[r].data.recentChecks :
           DayOf(req[r].data.recentChecks[k].createdAt) = req[r].key
      /\ \A k \in DOMAIN req[r].data.recentAnalyses :
           DayOf(req[r].data.recentAnalyses[k].analyzedAt) = req[r].key

(***************************************************************************)
(* Properties of one run of verifyClaim (VerifySpec), continued            *)
(***************************************************************************)
VerificationStatuses == {"true", "false", "mixed", "unverified"}

\* C20: the status of the Verdict verifyClaim returns is one of true, false,
\* mixed, unverified, whatever status the model put in its JSON payload.
C20_StatusIsOneOfFour ==
  pc = "done" => result.status \in VerificationStatuses

(***************************************************************************)
(* Properties of the tool handlers (Spec), continued                       *)
(***************************************************************************)
\* C21: in every reachable state, whatever the interleaving of the calls,
\* the store holds at most one webpage_analyses row per URL and at most one
\* daily_digests row per date.
C21_OneRowPerUrlAndPerDate ==
  /\ \A a, b \in DOMAIN webpageAnalyses :
       webpageAnalyses[a].url = webpageAnalyses[b].url => a = b
  /\ \A a, b \in DOMAIN dailyDigests :
       dailyDigests[a].digestDate = dailyDigests[b].digestDate => a = b

\* two analyze_webpage calls for one URL ran at the same time, both missed
\* the lookup and both reached the insert: one row is in the store
C21_Witness ==
  \E i, j \in Calls :
    /\ i < j /\ SameKey(i, j) /\ ~After(j, i)
    /\ history[i].kind = "analyze_webpage"
    /\ history[i].writes = 1
    /\ history[j].resp.isError
    /\ history[j].resp.value[2] = "UNIQUE constraint failed: webpage_analyses.url"
    /\ Len(webpageAnalyses) = 1

(***************************************************************************)
(* Properties of one run of verifyClaim (VerifySpec): the confidence on    *)
(* the path where the model's JSON payload was parsed                      *)
(***************************************************************************)
\* verifyClaim returned from the inner try block
ParsedPath == pc = "done" /\ ~cohere.threw /\ ~innerTryThrows(cohere.text)
\* the confidence of the payload, or 0 (line 779)
PayloadConfidence == confidenceOrZero(JSONparse(cohere.text).value.confidence)
\* the confidence after the raise to 0.8 x the mean evidence confidence
RaisedConfidence ==
  IF collected.externalResults = <<>> THEN PayloadConfidence
  ELSE MathMax(PayloadConfidence,
               Times(SumConfidence(collected.externalResults)
                       \div Len(collected.externalResults), 8))

\* C22: on the parsed path, when a conflict was detected, the confidence
\* returned is max(0.3, 0.7 x c) clamped to [0,1], c being the confidence
\* after the raise to 0.8 x the mean evidence confidence: the dampening comes
\* after the raise and neither the 0.85 nor the 0.9 floor is applied.
C22_ConflictDampensAfterRaise ==
  (ParsedPath /\ conflictAnalysis.hasConflicts)
  => result.confidence =
       MathMax(0, MathMin(One, MathMax(H(30), Times(RaisedConfidence, 7))))

\* a conflict among evidence that holds a record of a domain-specific
\* adapter, and a confidence that was raised, dampened and left below 0.85
C22_Witness ==
  /\ ParsedPath /\ conflictAnalysis.hasConflicts
  /\ \E i \in DOMAIN collected.from :
       collected.from[i] \in {"Liquipedia", "ESPN", "TheSportsDB", "PubMed", "WHO", "SEC", "arXiv"}
  /\ RaisedConfidence > PayloadConfidence
  /\ result.confidence > H(30) /\ result.confidence < H(85)

DomainAdapters == {"Liquipedia", "ESPN", "TheSportsDB", "PubMed", "WHO", "SEC", "arXiv"}
\* some evidence record was returned by a domain-specific adapter
HasDomainRecord == \E i \in DOMAIN collected.from : collected.from[i] \in DomainAdapters
\* the confidence with the 0.9 floor of a Snopes verdict, when there is one
WithSnopesFloor(c) ==
  IF hasSnopesVerdict(collected.externalResults) THEN MathMax(c, H(90)) ELSE c

\* C23: on the parsed path with no conflict, the 0.85 floor is applied when
\* some evidence record was produced by a domain-specific adapter, and is
\* not applied when every record comes from the four general adapters,
\* whatever source name those records carry.
C23_FloorFollowsTheAdapter ==
  (ParsedPath /\ ~conflictAnalysis.hasConflicts)
  => result.confidence =
       MathMax(0, MathMin(One,
         WithSnopesFloor(IF HasDomainRecord THEN MathMax(RaisedConfidence, H(85))
                         ELSE RaisedConfidence)))

(***************************************************************************)
(* The feed-scanning adapters on their own: searchSnopes, searchESPN and   *)
(* searchWHO over feeds of up to MaxFeedItems items                        *)
(***************************************************************************)
MaxFeedItems == 11
MaxFeedTail == 2
FeedAdapters == {"Snopes", "ESPN", "WHO"}

\* an item about something else
OtherItem ==
  Item("Tournament roundup", "A mixture of results.",
       "https://www.snopes.com/fact-check/roundup/")
FeedPool == {SnopesFeed[i] : i \in DOMAIN SnopesFeed} \cup {ESPNFeed[1], WHOFeed[1]}
\* feeds: items about something else, then up to MaxFeedTail items of the pool
Feeds ==
  { [i \in 1..n |-> OtherItem] \o tail :
      n \in 0..(MaxFeedItems - 1),
      tail \in UNION {[1..k -> FeedPool] : k \in 0..MaxFeedTail} }

FeedInit ==
  /\ pc = "search"
  /\ claim \in Claims
  /\ \E adapter \in FeedAdapters :
       collected = [NoEvidence EXCEPT !.invoked = <<adapter>>]
  /\ cohere = NoCohere
  /\ result = NoResult
  /\ conflictAnalysis = NoConflictAnalysis
  /\ feed \in {f \in Feeds : Len(f) <= MaxFeedItems}
  /\ ServerInit

\* `const r = await searchX(claim); if (r) externalResults.push(r)` on a
\* feed that was fetched
SearchFeed ==
  /\ pc = "search"
  /\ collected' = CollectStep(NoEvidence, collected.invoked[1], claim,
                              [net |-> "ok", items |-> feed])
  /\ pc' = "searched"
  /\ UNCHANGED <<claim, cohere, result, conflictAnalysis, feed, serverVars>>

FeedNext == SearchFeed

FeedSpec == FeedInit /\ [][FeedNext]_vars

\* the items of the whole feed that hold enough words of the query
Accepted == {i \in DOMAIN feed : itemMatches(QueryWords(claim), feed[i])}

\* C24: a feed-scanning adapter returns a record for the first item of the
\* feed, in feed order, that holds at least min(2, wordCount) of the query's
\* words longer than 3 characters, and returns no record only if no item of
\* the feed holds that many.
C24_FirstAcceptedItemIsReturned ==
  pc = "searched" =>
    IF Accepted = {} THEN collected.externalResults = <<>>
    ELSE /\ Len(collected.externalResults) = 1
         /\ \E i \in Accepted :
              /\ \A j \in Accepted : i <= j
              /\ collected.externalResults[1].url = <<feed[i].link>>

(***************************************************************************)
(* Properties of the tool handlers (Spec), continued                       *)
(***************************************************************************)
\* call i ran verifyClaim and returned a Verdict built in one of its catch
\* blocks: the model call threw ("Error during verification: ...") or its
\* output was no JSON (the raw text as reasoning)
ReturnedDegraded(i) ==
  /\ history[i].kind = "verify_claim"
  /\ ~history[i].resp.isError /\ ~history[i].resp.cached
  /\ \/ history[i].resp.value.reasoning[1] = "Error during verification: "
     \/ history[i].resp.value.reasoning = <<RawText(NoMembers("prose"))>>

\* C25: a degraded Verdict of verify_claim is persisted like any other: the
\* call that returns it has inserted its row, and every verify_claim for the
\* same claim text that arrives later calls no model and no adapter and,
\* unless its lookup fails, is answered from the store, with that degraded
\* Verdict when the calls on the claim came one after the other.
C25_DegradedVerdictIsCached ==
  \A i \in Calls :
    ReturnedDegraded(i) =>
      /\ history[i].resp.value.status = "unverified"
      /\ history[i].writes = 1
      /\ \E k \in DOMAIN factChecks :
           /\ factChecks[k].claimText = history[i].key
           /\ cachedVerdict(factChecks[k]) = history[i].resp.value
      /\ \A j \in Calls :
           (i < j /\ SameKey(i, j) /\ After(j, i))
           => /\ OnlyLookedUp(j)
              /\ \/ StoreFailed(j)
                 \/ /\ history[j].resp.cached
                    /\ SequentialUpTo(j) => history[j].resp.value = history[i].resp.value

\* the model call failed, and the two calls that came after it got the
\* degraded Verdict from the store
C25_Witness ==
  \E i, j, k \in Calls :
    /\ i < j /\ j < k /\ SameKey(i, j) /\ SameKey(i, k) /\ After(j, i) /\ After(k, j)
    /\ ReturnedDegraded(i) /\ history[i].modelCalls = 1
    /\ history[i].resp.value.reasoning[1] = "Error during verification: "
    /\ history[j].resp.cached /\ history[j].resp.value = history[i].resp.value
    /\ history[k].resp.cached /\ history[k].resp.value = history[i].resp.value

\* the same with a model output that was no JSON
C25_WitnessMalformed ==
  \E i, j \in Calls :
    /\ i < j /\ SameKey(i, j) /\ After(j, i)
    /\ ReturnedDegraded(i) /\ history[i].resp.value.reasoning = <<"I cannot verify this claim.">>
    /\ history[j].resp.cached /\ history[j].resp.value = history[i].resp.value

\* call i ran a whole analysis: it missed the lookup and returned its result
Analyzed(i) ==
  /\ history[i].kind = "analyze_webpage"
  /\ ~history[i].resp.isError /\ ~history[i].resp.cached
RECURSIVE PlannedCalls(_)
\* the adapter calls of fresh verifications of the claims of results
PlannedCalls(results) ==
  IF results = <<>> THEN 0
  ELSE Len(AdapterPlan(Head(results).claim)) + PlannedCalls(Tail(results))

\* C26: analyze_webpage neither reads nor writes fact_checks: every row of
\* fact_checks was inserted by a verify_claim call, and an analysis verifies
\* each of the first 3 extracted claims afresh, with all the adapter calls
\* and the model call of a verification, whatever fact_checks holds.
C26_AnalysisLeavesFactChecksAlone ==
  /\ Len(factChecks) =
       Cardinality({i \in Calls : history[i].kind = "verify_claim" /\ history[i].writes = 1})
  /\ \A i \in Calls :
       Analyzed(i) =>
         /\ Len(history[i].resp.value.factCheckResults)
              = Min(3, Len(history[i].resp.value.claimsExtracted))
         /\ history[i].modelCalls = 2 + Len(history[i].resp.value.factCheckResults)
         /\ history[i].adapterCalls = PlannedCalls(history[i].resp.value.factCheckResults)

\* C26, step by step: a step of an analyze_webpage call leaves fact_checks
\* as it was
C26_AnalysisStepsKeepFactChecks ==
  [][(\E r \in Slots :
        /\ req'[r] /= req[r]
        /\ req[r].kind = "analyze_webpage" \/ req'[r].kind = "analyze_webpage")
     => factChecks' = factChecks]_vars

\* a Verdict of a claim is in the store when an analysis of a page with
\* that claim arrives; the analysis returns another Verdict for the claim
\* and fact_checks still holds the one row
C26_Witness ==
  \E i, j \in Calls :
    /\ i < j /\ After(j, i)
    /\ history[i].kind = "verify_claim" /\ history[i].writes = 1
    /\ Analyzed(j)
    /\ Len(history[j].resp.value.factCheckResults) = 3
    /\ \E k \in DOMAIN history[j].resp.value.factCheckResults :
         /\ history[j].resp.value.factCheckResults[k].claim = history[i].key
         /\ history[j].resp.value.factCheckResults[k].verdict /= history[i].resp.value
    /\ Len(factChecks) = 1

(***************************************************************************)
(* Properties of one run of verifyClaim (VerifySpec): verdict labels       *)
(***************************************************************************)
\* the evidence records that carry a verdict label
Labelled == {i \in DOMAIN collected.externalResults :
               truthy(collected.externalResults[i].verdict)}

\* C27: within verifyClaim at most one evidence record carries a verdict
\* label, it is the record of Snopes and its label is False, True or Mixed;
\* so the conflict analysis never takes its verdict-label branch, and every
\* conflict it reports names pairs of sources found by the antonym check of
\* the summaries.
C27_LabelBranchIsNeverTaken ==
  /\ Cardinality(Labelled) <= 1
  /\ \A i \in Labelled :
       /\ collected.from[i] = "Snopes"
       /\ collected.externalResults[i].verdict \in {"False", "True", "Mixed"}
  /\ pc = "done" =>
       /\ conflictAnalysis.conflictSummary
            /= "Sources provide conflicting verdicts (some say true, others say false)"
       /\ conflictAnalysis.hasConflicts =>
            /\ conflictAnalysis.pairs /= <<>>
            /\ \E i, j \in DOMAIN collected.externalResults :
                 /\ i < j
                 /\ summariesConflict(collected.externalResults[i].summary,
                                      collected.externalResults[j].summary)

\* a Snopes record labelled False among evidence whose summaries conflict
C27_Witness ==
  /\ pc = "done"
  /\ \E i \in Labelled : collected.externalResults[i].verdict = "False"
  /\ Len(collected.externalResults) >= 3
  /\ conflictAnalysis.hasConflicts
  /\ conflictAnalysis.conflictSummary = "Conflicting information between: "

=============================================================================
